---------------------------- MODULE Spec2Model ----------------------------
(***************************************************************************)
(* Entry lifecycle and consistency layer of the muninn voice journal:      *)
(* the relational store (services/db.ts), the storage helpers and the      *)
(* markdown mirror (services/storage.ts) and the request handlers of the   *)
(* API router (server/api.ts, the full version being unnamed/part_017).    *)
(*                                                                         *)
(* Strings that the code inspects character by character (titles, tag      *)
(* names) are sequences of one-character strings.  SQL NULL / JS null of   *)
(* a text column is the value Null, of a numeric column the value NoNum.   *)
(***************************************************************************)
EXTENDS Integers, Sequences, FiniteSets, TLC

(***************************************************************************)
(* Bounds of the model.                                                    *)
(***************************************************************************)
\* number of entry ids generateId can hand out
MaxEntries == 2
\* largest value of the wall clock behind datetime('now')
MaxClock == 1
\* number of requests the clients send in one behaviour
MaxRequests == 3
\* number of injected faults (I/O errors, failing SQL statements) in one
\* behaviour
MaxFaults == 1
\* number of request slots: requests that can be suspended at the same time
MaxInflight == 2

(***************************************************************************)
(* Values.                                                                 *)
(***************************************************************************)
Null == <<"NULL">>
NoNum == 0 - 1
\* NULL offered for the column status
NoStatus == "NULL"

Ids == 1 .. MaxEntries
Slots == 1 .. MaxInflight

PENDING == "pending_transcription"
TRANSCRIBED == "transcribed"
ANALYZED == "analyzed"

\* the order pending_transcription < transcribed < analyzed of the lifecycle
StatusRank(s) ==
  IF s = PENDING THEN 0 ELSE IF s = TRANSCRIBED THEN 1 ELSE 2

\* columns of the entries table
EntryColumns ==
  {"id", "created_at", "updated_at", "title", "transcript", "audio_path",
   "audio_duration_seconds", "status", "analysis_json",
   "follow_up_questions", "agent_trajectory"}

\* the keys of the Partial<Pick<Entry, ...>> type of updateEntry's parameter
UpdatableFields ==
  {"title", "transcript", "audio_path", "audio_duration_seconds", "status",
   "analysis_json", "follow_up_questions", "agent_trajectory"}

Min(a, b) == IF a < b THEN a ELSE b

(***************************************************************************)
(* String helpers: String.prototype.toLowerCase and trim on the alphabet   *)
(* the model uses.                                                         *)
(***************************************************************************)
toLowerCaseChar(c) ==
  CASE c = "H" -> "h"
    [] c = "W" -> "w"
    [] c = "T" -> "t"
    [] OTHER -> c

toLowerCase(s) == [i \in 1 .. Len(s) |-> toLowerCaseChar(s[i])]

RECURSIVE trimStart(_)
trimStart(s) ==
  IF s # <<>> /\ Head(s) = " " THEN trimStart(Tail(s)) ELSE s

RECURSIVE trimEnd(_)
trimEnd(s) ==
  IF s # <<>> /\ s[Len(s)] = " " THEN trimEnd(SubSeq(s, 1, Len(s) - 1)) ELSE s

trim(s) == trimEnd(trimStart(s))

(***************************************************************************)
(* sanitizeFilename and the markdown paths (services/storage.ts).          *)
(***************************************************************************)
SlugMaxLen == 100

SlugChars == {"h", "i", "w", "t", "0", "1", " ", "-"}

RECURSIVE collapseHyphens(_)
collapseHyphens(s) ==
  IF Len(s) < 2 THEN s
  ELSE IF s[1] = "-" /\ s[2] = "-" THEN collapseHyphens(Tail(s))
  ELSE <<s[1]>> \o collapseHyphens(Tail(s))

trimOneHyphen(s) ==
  LET a == IF s # <<>> /\ Head(s) = "-" THEN Tail(s) ELSE s
  IN  IF a # <<>> /\ a[Len(a)] = "-" THEN SubSeq(a, 1, Len(a) - 1) ELSE a

sanitizeFilename(title) ==
  LET lower == toLowerCase(title)
      kept == SelectSeq(lower, LAMBDA c : c \in SlugChars)
      hyph == [i \in 1 .. Len(kept) |-> IF kept[i] = " " THEN "-" ELSE kept[i]]
      one == collapseHyphens(hyph)
      cut == trimOneHyphen(one)
  IN  SubSeq(cut, 1, Min(Len(cut), SlugMaxLen))

\* JS truthiness of a nullable text value: null and "" are falsy
Truthy(v) == v # Null /\ v # <<>>

\* a file of the entries directory: `${slug}--${id}.md`, or `${id}.md` when
\* the slug is empty
MdFile(slug, id) == <<"entries", id, slug>>

\* a file of the audio directory: `${id}.${ext}`
AudioFile(id, ext) == <<"audio", id, ext>>

getIdBasedMarkdownPath(id) == MdFile(<<>>, id)

getMarkdownPath(entry) ==
  IF entry.status = ANALYZED /\ Truthy(entry.title)
       /\ sanitizeFilename(entry.title) # <<>>
  THEN MdFile(sanitizeFilename(entry.title), entry.id)
  ELSE MdFile(<<>>, entry.id)

(***************************************************************************)
(* The relational store (services/db.ts).  A database value is a record    *)
(*   entries     : entry id -> row (a function on EntryColumns)            *)
(*   tags        : sequence of tag names; the AUTOINCREMENT id of a tag    *)
(*                 is its index (no code path deletes a tag row)           *)
(*   entry_tags  : set of <<entry_id, tag_id>>                             *)
(*   entry_links : <<source_id, target_id>> -> relationship                *)
(*   cache       : key -> [value, depends_on, created_at]                  *)
(***************************************************************************)
EmptyDb ==
  [entries |-> << >>, tags |-> << >>, entry_tags |-> {}, entry_links |-> << >>,
   cache |-> << >>]

\* a withTransaction that rethrows without ROLLBACK
withTransactionNoRollback(pre, res) == res

\* a withTransaction that returns without COMMIT
withTransactionNoCommit(pre, res) == [res EXCEPT !.db = pre]

\* withTransaction: BEGIN IMMEDIATE; fn(); COMMIT, or ROLLBACK and rethrow.
\* pre is the database at BEGIN, res the outcome of running fn on it.
withTransaction(pre, res) ==
  [res EXCEPT !.db = IF res.threw THEN pre ELSE res.db]

(***************************************************************************)
(* Storage helpers (services/storage.ts).                                  *)
(***************************************************************************)
HasEntry(db, id) == id \in DOMAIN db.entries

\* the row INSERT INTO entries (id, audio_path, status) creates
NewRow(id, audioPath, now) ==
  [c \in EntryColumns |->
     CASE c = "id" -> id
       [] c = "created_at" -> now
       [] c = "updated_at" -> now
       [] c = "audio_path" -> IF Truthy(audioPath) THEN audioPath ELSE Null
       [] c = "audio_duration_seconds" -> NoNum
       [] c = "status" -> PENDING
       [] OTHER -> Null]

\* the Entry object of a row (the fields the code reads by name)
EntryOf(row) ==
  [id |-> row["id"], status |-> row["status"], title |-> row["title"],
   transcript |-> row["transcript"], audio_path |-> row["audio_path"]]

createEntry(db, id, audioPath, now) ==
  [db EXCEPT !.entries =
     [i \in DOMAIN db.entries \cup {id} |->
        IF i = id THEN NewRow(id, audioPath, now) ELSE db.entries[i]]]

TagNames(db) == {db.tags[i] : i \in DOMAIN db.tags}

TagId(db, normalized) == CHOOSE i \in DOMAIN db.tags : db.tags[i] = normalized

\* getEntryTags, as the set of names (the query orders them by name)
getEntryTags(db, entryId) ==
  {db.tags[et[2]] : et \in {x \in db.entry_tags : x[1] = entryId}}

\* values of analysis_json / follow_up_questions that JSON.parse accepts
JsonDoc == <<"j">>
ParseJson(v) == IF v = JsonDoc THEN v ELSE Null

NoTranscriptYet == <<"*">>

\* the content syncEntryToMarkdown builds: front matter, body, analysis and
\* follow-up sections, with the truthiness tests of the template
Render(row, tags) ==
  [id |-> row["id"],
   created |-> row["created_at"],
   updated |-> row["updated_at"],
   status |-> row["status"],
   title |-> IF Truthy(row["title"]) THEN row["title"] ELSE <<>>,
   tags |-> tags,
   audio |-> IF Truthy(row["audio_path"]) THEN row["audio_path"] ELSE <<>>,
   duration |-> IF row["audio_duration_seconds"] \in {NoNum, 0}
                THEN NoNum ELSE row["audio_duration_seconds"],
   body |-> IF Truthy(row["transcript"]) THEN row["transcript"]
            ELSE NoTranscriptYet,
   analysis |-> IF Truthy(row["analysis_json"])
                THEN ParseJson(row["analysis_json"]) ELSE Null,
   followUps |-> IF Truthy(row["follow_up_questions"])
                 THEN ParseJson(row["follow_up_questions"]) ELSE Null]

Exists(files, path) == path \in DOMAIN files

unlinkSync(files, path) ==
  [p \in DOMAIN files \ {path} |-> files[p]]

\* a write with the flag "a": what is written is appended to the body of an
\* existing markdown file
writeFileSyncAppending(files, path, content) ==
  [p \in DOMAIN files \cup {path} |->
     IF p # path THEN files[p]
     ELSE IF path \in DOMAIN files
     THEN [content EXCEPT !.body = files[path].body \o @]
     ELSE content]

writeFileSync(files, path, content) ==
  [p \in DOMAIN files \cup {path} |-> IF p = path THEN content ELSE files[p]]

\* fsf tells which filesystem calls of this operation fail with an I/O error
NoFsFault == [unlink |-> FALSE, write |-> FALSE]
FsFaults == [unlink : BOOLEAN, write : BOOLEAN]

\* a sync that writes the new file and leaves the old ID-based file
syncEntryToMarkdownKeepsOld(db, files, row, fsf) ==
  IF fsf.write THEN files
  ELSE writeFileSync(files, getMarkdownPath(EntryOf(row)),
                     Render(row, getEntryTags(db, row["id"])))

syncEntryToMarkdown(db, files, row, fsf) ==
  LET content == Render(row, getEntryTags(db, row["id"]))
      newPath == getMarkdownPath(EntryOf(row))
      oldIdPath == getIdBasedMarkdownPath(row["id"])
      cleaned == IF newPath # oldIdPath /\ Exists(files, oldIdPath)
                      /\ ~fsf.unlink
                 THEN unlinkSync(files, oldIdPath) ELSE files
  IN  IF fsf.write THEN cleaned ELSE writeFileSync(cleaned, newPath, content)

\* The UPDATE statement of updateEntry fails when a key is no column of the
\* table, or when it would store NULL in the NOT NULL column status.
UpdateSqlFails(updates) ==
  \/ ~(DOMAIN updates \subseteq EntryColumns)
  \/ ("status" \in DOMAIN updates /\ updates["status"] = NoStatus)

\* an updateEntry whose syncEntryToMarkdown has no try / catch: an I/O error
\* leaves updateEntry as an exception, after the UPDATE
updateEntryNoCatch(db, files, id, updates, now, fsf) ==
  IF ~HasEntry(db, id)
  THEN [db |-> db, files |-> files, ret |-> FALSE, threw |-> FALSE]
  ELSE IF UpdateSqlFails(updates)
  THEN [db |-> db, files |-> files, ret |-> FALSE, threw |-> TRUE]
  ELSE
    LET old == db.entries[id]
        row == [c \in EntryColumns |->
                  IF c \in DOMAIN updates THEN updates[c]
                  ELSE IF c = "updated_at" THEN now ELSE old[c]]
        db2 == [db EXCEPT !.entries[id] = row]
    IN  IF fsf.write \/ fsf.unlink
        THEN [db |-> db2, files |-> files, ret |-> FALSE, threw |-> TRUE]
        ELSE [db |-> db2,
              files |-> syncEntryToMarkdown(db2, files, row, fsf),
              ret |-> TRUE, threw |-> FALSE]

\* updateEntry: every key of updates is pushed into the SET clause after
\* updated_at = datetime('now'); the updated row is synced to markdown
updateEntry(db, files, id, updates, now, fsf) ==
  IF ~HasEntry(db, id)
  THEN [db |-> db, files |-> files, ret |-> FALSE, threw |-> FALSE]
  ELSE IF UpdateSqlFails(updates)
  THEN [db |-> db, files |-> files, ret |-> FALSE, threw |-> TRUE]
  ELSE
    LET old == db.entries[id]
        row == [c \in EntryColumns |->
                  IF c \in DOMAIN updates THEN updates[c]
                  ELSE IF c = "updated_at" THEN now ELSE old[c]]
        db2 == [db EXCEPT !.entries[id] = row]
    IN  [db |-> db2,
         files |-> syncEntryToMarkdown(db2, files, row, fsf),
         ret |-> TRUE, threw |-> FALSE]

\* the DELETE on a connection without PRAGMA foreign_keys = ON: no cascade
DeleteRowNoCascade(db, id) ==
  [db EXCEPT
     !.entries = [i \in DOMAIN db.entries \ {id} |-> db.entries[i]]]

\* DELETE FROM entries WHERE id = ?, with the ON DELETE CASCADE of
\* entry_tags and entry_links
DeleteRow(db, id) ==
  [db EXCEPT
     !.entries = [i \in DOMAIN db.entries \ {id} |-> db.entries[i]],
     !.entry_tags = {et \in db.entry_tags : et[1] # id},
     !.entry_links =
        [l \in {k \in DOMAIN db.entry_links : k[1] # id /\ k[2] # id} |->
           db.entry_links[l]]]

\* a getOrCreateTag without the SELECT of the existing row, on a table
\* without the UNIQUE constraint
getOrCreateTagAlwaysInserts(db, name) ==
  [db EXCEPT !.tags = Append(db.tags, trim(toLowerCase(name)))]

getOrCreateTag(db, name) ==
  LET normalized == trim(toLowerCase(name))
  IN  IF normalized \in TagNames(db) THEN db
      ELSE [db EXCEPT !.tags = Append(db.tags, normalized)]

\* an addTagToEntry whose INSERT lacks OR IGNORE: a duplicate pair throws
addTagToEntryNoIgnore(db, entryId, tagName) ==
  LET db1 == getOrCreateTag(db, tagName)
      tid == TagId(db1, trim(toLowerCase(tagName)))
  IN  IF ~HasEntry(db1, entryId) \/ <<entryId, tid>> \in db1.entry_tags
      THEN [db |-> db1, threw |-> TRUE]
      ELSE [db |-> [db1 EXCEPT !.entry_tags = @ \cup {<<entryId, tid>>}],
            threw |-> FALSE]

\* addTagToEntry: INSERT OR IGNORE ignores a duplicate pair, but the foreign
\* key on entry_id makes the statement throw for a missing entry (after
\* getOrCreateTag has inserted the tag row)
addTagToEntry(db, entryId, tagName) ==
  LET db1 == getOrCreateTag(db, tagName)
      tid == TagId(db1, trim(toLowerCase(tagName)))
  IN  IF ~HasEntry(db1, entryId) THEN [db |-> db1, threw |-> TRUE]
      ELSE [db |-> [db1 EXCEPT !.entry_tags = @ \cup {<<entryId, tid>>}],
            threw |-> FALSE]

removeTagFromEntry(db, entryId, tagName) ==
  LET normalized == trim(toLowerCase(tagName))
  IN  IF normalized \notin TagNames(db) THEN db
      ELSE [db EXCEPT !.entry_tags = @ \ {<<entryId, TagId(db, normalized)>>}]

\* linkEntries: INSERT OR REPLACE on the key (source_id, target_id); both
\* ids are foreign keys into entries
linkEntries(db, sourceId, targetId, relationship) ==
  IF ~HasEntry(db, sourceId) \/ ~HasEntry(db, targetId)
  THEN [db |-> db, threw |-> TRUE]
  ELSE [db |-> [db EXCEPT !.entry_links =
                  [l \in DOMAIN db.entry_links \cup {<<sourceId, targetId>>} |->
                     IF l = <<sourceId, targetId>>
                     THEN (IF Truthy(relationship) THEN relationship ELSE Null)
                     ELSE db.entry_links[l]]],
        threw |-> FALSE]

(***************************************************************************)
(* Request validation of the API router (server/api.ts).                   *)
(***************************************************************************)
MAX_FILE_SIZE_BYTES == 50 * 1024 * 1024

\* A MIME type is a sequence of segments, e.g. <<"audio/webm", ";codecs=opus">>.
ALLOWED_AUDIO_MIME_TYPES ==
  {"audio/webm", "video/webm", "audio/ogg", "audio/mp3", "audio/mpeg",
   "audio/mp4", "audio/x-m4a"}

\* mimeType.startsWith(allowed) for some allowed type
isAllowedAudioMimeType(mimeType) ==
  mimeType # <<>> /\ Head(mimeType) \in ALLOWED_AUDIO_MIME_TYPES

\* mimeType.includes(word)
MimeIncludes(mimeType, word) ==
  \E i \in 1 .. Len(mimeType) :
    \/ mimeType[i] \in {"audio/webm", "video/webm"} /\ word = "webm"
    \/ mimeType[i] = "audio/ogg" /\ word = "ogg"
    \/ mimeType[i] = "audio/mp3" /\ word = "mp3"
    \/ mimeType[i] = "audio/mpeg" /\ word = "mpeg"
    \/ mimeType[i] = "audio/mp4" /\ word = "mp4"
    \/ mimeType[i] = "audio/x-m4a" /\ word = "m4a"

getExtensionFromMimeType(mimeType) ==
  IF MimeIncludes(mimeType, "webm") THEN <<"webm">>
  ELSE IF MimeIncludes(mimeType, "ogg") THEN <<"ogg">>
  ELSE IF MimeIncludes(mimeType, "mp3") \/ MimeIncludes(mimeType, "mpeg")
  THEN <<"mp3">>
  ELSE IF MimeIncludes(mimeType, "mp4") \/ MimeIncludes(mimeType, "m4a")
  THEN <<"m4a">>
  ELSE <<"webm">>

\* UpdateEntrySchema: the keys of the z.object and the type of each value
SchemaKeys ==
  {"title", "transcript", "audio_path", "audio_duration_seconds", "status",
   "analysis_json", "follow_up_questions"}

SchemaValueOk(k, v) ==
  CASE k = "status" -> v \in {PENDING, TRANSCRIBED, ANALYZED}
    [] k = "audio_duration_seconds" -> v # NoNum
    [] OTHER -> v # Null

\* safeParse of the schema without .strict(): unknown keys are stripped
safeParseStripsUnknown(body) ==
  [success |-> \A k \in DOMAIN body \cap SchemaKeys : SchemaValueOk(k, body[k]),
   data |-> [k \in DOMAIN body \cap SchemaKeys |-> body[k]]]

\* UpdateEntrySchema.safeParse(body) of a z.object(...).strict()
safeParse(body) ==
  [success |-> /\ DOMAIN body \subseteq SchemaKeys
               /\ \A k \in DOMAIN body : SchemaValueOk(k, body[k]),
   data |-> body]

(***************************************************************************)
(* Inputs of the requests.                                                 *)
(***************************************************************************)
TitleHi == <<"H", "i">>
TitleBang == <<"!">>
TextHi == <<"h", "i">>

\* bodies of PATCH /entries/:id
PatchBodies ==
  { "title" :> TitleBang,
    "status" :> PENDING,
    "status" :> ANALYZED,
    "transcript" :> << >>,
    ("title" :> TitleBang) @@ ("created_at" :> 0),
    "status" :> "done" }

\* uploads of POST /entries (multipart): MIME type and size in bytes
Uploads ==
  { [type |-> <<"audio/webm", ";codecs=opus">>, size |-> 1],
    [type |-> <<"application/zip">>, size |-> 1],
    [type |-> <<"audio/ogg">>, size |-> MAX_FILE_SIZE_BYTES + 1] }

\* results of the STT provider
SttResults == { [text |-> TextHi, duration |-> 1] }

TagWork == <<"w">>
TagTravel == <<" ", "T">>

\* results of the analysis agent: title, tags, related entries
AgentResults ==
  { [title |-> TitleHi, tags |-> <<TagWork, TagTravel>>,
     related_entries |-> << >>],
    [title |-> TitleHi, tags |-> <<TagWork>>,
     related_entries |-> <<[id |-> 1, reason |-> <<"r">>]>>] }

NoAnalysis == [title |-> Null, tags |-> << >>, related_entries |-> << >>]

\* tag names of the tag endpoints
TagInputs == {TagWork, <<"W">>}

(***************************************************************************)
(* State.                                                                  *)
(*   db, files          the database and the files on disk                 *)
(*   now                the wall clock read by datetime('now')             *)
(*   issued             number of ids generateId has handed out            *)
(*   sent               number of requests received so far                 *)
(*   lastAgentAnalysis  the module variable of services/analysis.ts        *)
(*   req                the request slots: for each running request its    *)
(*                      handler, its position (pc) and its locals          *)
(*   resp               the response sent by the last step, if it sent one *)
(*   faults             number of faults injected so far                   *)
(*   chunkAccumulator   the Map of server/api.ts: entry id -> bytes        *)
(*                      accepted so far by the audio-chunk endpoint        *)
(*   retry              the running call of withRetry (services/retry.ts): *)
(*                      its options, loop variables and, as history, the   *)
(*                      outcome of every invocation of fn                  *)
(*   chunkDone          history: for each id, a final chunk was accepted   *)
(*                      or a chunk was rejected for its size, and no       *)
(*                      audio-chunk request for the id has arrived since   *)
(*   lastCall           the last direct call of a function of              *)
(*                      services/storage.ts: its name, its arguments, what *)
(*                      it returned, whether it threw, the database before *)
(*                      it, and the number of calls so far                 *)
(* History fields of a request, copied into its response:                  *)
(*   wrote   which of the database and the files its steps have changed    *)
(*   keys    the field names of the body of a PATCH                        *)
(*   ran     the number of statements of its transaction that completed;   *)
(*           for a retranscribe, the number of tags its loop removed; for  *)
(*           a delete, the number of rows the cascade removed              *)
(*   fsErr   an unlinkSync of its deleteEntry failed; for a direct call of *)
(*           updateEntry, a filesystem call of its markdown sync fails     *)
(*   upload  the audio file of a multipart POST /entries                   *)
(* The field tx of a request tells that it has executed BEGIN IMMEDIATE    *)
(* and neither COMMIT nor ROLLBACK since; the history field returned keeps *)
(* the related_entries of the result the agent returned to the request.    *)
(***************************************************************************)
VARIABLES db, files, now, issued, sent, lastAgentAnalysis, req, resp, faults,
          chunkAccumulator, chunkDone, retry, lastCall

vars == <<db, files, now, issued, sent, lastAgentAnalysis, req, resp, faults,
          chunkAccumulator, chunkDone, retry, lastCall>>

chunkVars == <<chunkAccumulator, chunkDone>>

\* no error (undefined), and withRetry before it is called
NoError == [class |-> "none", name |-> "", message |-> << >>]

RetryIdle ==
  [phase |-> "idle", caller |-> "", maxAttempts |-> 0, classifier |-> "",
   attempt |-> 0, outcomes |-> << >>, delayMs |-> 0, slept |-> << >>,
   notified |-> 0, lastError |-> NoError, error |-> NoError, result |-> "",
   initialDelayMs |-> 0, maxDelayMs |-> 0, backoffMultiplier |-> 0]

\* no audio file in the form data
NoUpload == [type |-> << >>, size |-> 0]

\* no chunk in the form data
NoChunk == [present |-> FALSE, type |-> << >>, size |-> 0, first |-> FALSE,
            isLast |-> FALSE]

NoCache == [set |-> FALSE, related_entries |-> << >>]

\* no function of services/storage.ts has been called directly.  id, id2:
\* entry ids; name, value, token: text arguments; ret, num: the text or the
\* number returned; pre: the database before the call; n: calls so far
NoCall ==
  [fn |-> "none", id |-> 0, id2 |-> 0, name |-> << >>, value |-> << >>,
   token |-> << >>, ret |-> << >>, num |-> 0, threw |-> FALSE,
   pre |-> EmptyDb, n |-> 0,
   again |-> FALSE]

IdleSlot ==
  [kind |-> "none", id |-> 0, pc |-> "idle", wrote |-> {},
   analysis |-> NoAnalysis, related |-> << >>,
   audioPath |-> Null, mdPath |-> Null,
   keys |-> {}, ran |-> 0, fsErr |-> FALSE,
   chunk |-> NoChunk, newSize |-> 0, upload |-> NoUpload,
   tx |-> FALSE, returned |-> << >>]

NoResp ==
  [kind |-> "none", id |-> 0, code |-> 0, cause |-> "", wrote |-> {},
   keys |-> {}, ran |-> 0, fsErr |-> FALSE, upload |-> NoUpload]

Init ==
  /\ db = EmptyDb
  /\ files = << >>
  /\ now = 0
  /\ issued = 0
  /\ sent = 0
  /\ lastAgentAnalysis = NoCache
  /\ req = [r \in Slots |-> IdleSlot]
  /\ resp = NoResp
  /\ faults = 0
  /\ chunkAccumulator = << >>
  /\ chunkDone = [id \in Ids |-> FALSE]
  /\ retry = RetryIdle
  /\ lastCall = NoCall

\* positions inside deleteEntry, a synchronous function, and inside the
\* function the analyze handler passes to withTransaction: nothing else
\* runs while a request is at one of them
SyncPcs == {"d_db", "d_audio", "d_md", "d_idmd", "a_in_tx"}

Busy == \E r \in Slots : req[r].pc \in SyncPcs

Free(r) == req[r].pc = "idle"

\* a new request takes the first free slot
CanStart(r) ==
  /\ ~Busy
  /\ sent < MaxRequests
  /\ Free(r)
  /\ \A q \in Slots : q < r => ~Free(q)

NewReq(kind, id) == [IdleSlot EXCEPT !.kind = kind, !.id = id]

\* what a step changed
Diff(db2, files2) ==
  (IF db2 # db THEN {"db"} ELSE {}) \cup (IF files2 # files THEN {"files"} ELSE {})

\* a step after which the request in slot r stays suspended or running
SlotStep(r, rec, db2, files2) ==
  /\ req' = [req EXCEPT ![r] = [rec EXCEPT !.wrote = @ \cup Diff(db2, files2)]]
  /\ resp' = NoResp
  /\ db' = db2
  /\ files' = files2
  /\ UNCHANGED <<retry, lastCall>>

\* the same for a handler that does not touch the chunk accumulator
Step(r, rec, db2, files2) ==
  /\ SlotStep(r, rec, db2, files2)
  /\ UNCHANGED chunkVars

\* a step that ends the request in slot r with a response
SlotAnswer(r, rec, code, cause, db2, files2) ==
  /\ req' = [req EXCEPT ![r] = IdleSlot]
  /\ resp' = [kind |-> rec.kind, id |-> rec.id, code |-> code, cause |-> cause,
              wrote |-> rec.wrote \cup Diff(db2, files2),
              keys |-> rec.keys, ran |-> rec.ran, fsErr |-> rec.fsErr,
              upload |-> rec.upload]
  /\ db' = db2
  /\ files' = files2
  /\ UNCHANGED <<retry, lastCall>>

\* the same for a handler that does not touch the chunk accumulator
Answer(r, rec, code, cause, db2, files2) ==
  /\ SlotAnswer(r, rec, code, cause, db2, files2)
  /\ UNCHANGED chunkVars

\* the faults a step injects: none, or one more
FaultCount(bs) == Cardinality({i \in DOMAIN bs : bs[i]})

Inject(bs) ==
  /\ faults + FaultCount(bs) <= MaxFaults
  /\ faults' = faults + FaultCount(bs)

Tick ==
  /\ ~Busy
  /\ now < MaxClock
  /\ now' = now + 1
  /\ resp' = NoResp
  /\ UNCHANGED <<db, files, issued, sent, lastAgentAnalysis, req, faults>>
  /\ UNCHANGED chunkVars
  /\ UNCHANGED <<retry, lastCall>>

(***************************************************************************)
(* POST /entries                                                           *)
(***************************************************************************)
\* JSON body: createEntry, then updateEntry when body.transcript is truthy
PostEntryJson(r, transcript, fsf) ==
  /\ CanStart(r)
  /\ issued < MaxEntries
  /\ Inject(fsf)
  /\ LET id == issued + 1
         db1 == createEntry(db, id, Null, now)
         u == IF Truthy(transcript)
              THEN updateEntry(db1, files, id,
                     ("transcript" :> transcript) @@ ("status" :> TRANSCRIBED),
                     now, fsf)
              ELSE [db |-> db1, files |-> files, ret |-> TRUE, threw |-> FALSE]
     IN  Answer(r, NewReq("create", id), 201, "", u.db, u.files)
  /\ issued' = issued + 1
  /\ sent' = sent + 1
  /\ UNCHANGED <<now, lastAgentAnalysis>>

\* a handler that creates the entry before it validates the audio file
PostEntryAudioCreatesFirst(r, up) ==
  /\ CanStart(r)
  /\ sent' = sent + 1
  /\ UNCHANGED <<now, lastAgentAnalysis, faults>>
  /\ issued < MaxEntries
  /\ issued' = issued + 1
  /\ IF ~isAllowedAudioMimeType(up.type)
     THEN Answer(r, [NewReq("upload", 0) EXCEPT !.upload = up], 400, "mime",
                 createEntry(db, issued + 1, Null, now), files)
     ELSE IF up.size > MAX_FILE_SIZE_BYTES
     THEN Answer(r, [NewReq("upload", 0) EXCEPT !.upload = up], 413, "size",
                 createEntry(db, issued + 1, Null, now), files)
     ELSE Step(r, [NewReq("upload", issued + 1) EXCEPT
                     !.pc = "u_buffer",
                     !.upload = up,
                     !.audioPath =
                        AudioFile(issued + 1, getExtensionFromMimeType(up.type))],
               createEntry(db, issued + 1, Null, now), files)

\* multipart body: validation, createEntry, then await audioFile.arrayBuffer()
PostEntryAudio(r, up) ==
  /\ CanStart(r)
  /\ sent' = sent + 1
  /\ UNCHANGED <<now, lastAgentAnalysis, faults>>
  /\ IF ~isAllowedAudioMimeType(up.type)
     THEN /\ Answer(r, [NewReq("upload", 0) EXCEPT !.upload = up], 400, "mime",
                    db, files)
          /\ UNCHANGED issued
     ELSE IF up.size > MAX_FILE_SIZE_BYTES
     THEN /\ Answer(r, [NewReq("upload", 0) EXCEPT !.upload = up], 413, "size",
                    db, files)
          /\ UNCHANGED issued
     ELSE /\ issued < MaxEntries
          /\ issued' = issued + 1
          /\ Step(r, [NewReq("upload", issued + 1) EXCEPT
                        !.pc = "u_buffer",
                        !.upload = up,
                        !.audioPath =
                           AudioFile(issued + 1, getExtensionFromMimeType(up.type))],
                  createEntry(db, issued + 1, Null, now), files)

AudioBytes == <<"bytes">>

\* saveAudioFile, then updateEntry(entry.id, { audio_path })
PostEntryAudioSave(r, saveFails, fsf) ==
  /\ ~Busy
  /\ req[r].pc = "u_buffer"
  /\ Inject(<<saveFails, fsf.unlink, fsf.write>>)
  /\ UNCHANGED <<now, issued, sent, lastAgentAnalysis>>
  /\ IF saveFails
     THEN Answer(r, req[r], 500, "save", db, files)
     ELSE LET f1 == writeFileSync(files, req[r].audioPath, AudioBytes)
              u == updateEntry(db, f1, req[r].id,
                     "audio_path" :> req[r].audioPath, now, fsf)
          IN  Answer(r, req[r], 201, "", u.db, u.files)

(***************************************************************************)
(* POST /entries/:id/transcribe and POST /entries/:id/retranscribe         *)
(***************************************************************************)
\* a handler without the audio_path check
SttStartNoAudioCheck(r, kind, id) ==
  /\ CanStart(r)
  /\ sent' = sent + 1
  /\ UNCHANGED <<now, issued, lastAgentAnalysis, faults>>
  /\ IF ~HasEntry(db, id)
     THEN Answer(r, NewReq(kind, id), 404, "not_found", db, files)
     ELSE Step(r, [NewReq(kind, id) EXCEPT
                     !.pc = "s_body",
                     !.audioPath = db.entries[id]["audio_path"]],
               db, files)

\* getEntry and the 404 / 400 checks, up to await c.req.json()
SttStart(r, kind, id) ==
  /\ CanStart(r)
  /\ sent' = sent + 1
  /\ UNCHANGED <<now, issued, lastAgentAnalysis, faults>>
  /\ IF ~HasEntry(db, id)
     THEN Answer(r, NewReq(kind, id), 404, "not_found", db, files)
     ELSE IF ~Truthy(db.entries[id]["audio_path"])
     THEN Answer(r, NewReq(kind, id), 400, "no_audio", db, files)
     ELSE Step(r, [NewReq(kind, id) EXCEPT
                     !.pc = "s_body",
                     !.audioPath = db.entries[id]["audio_path"]],
               db, files)

TranscribeStart(r, id) == SttStart(r, "transcribe", id)

RetranscribeStart(r, id) == SttStart(r, "retranscribe", id)

\* the fields a re-transcription clears
ClearedFields ==
  ("title" :> Null) @@ ("transcript" :> Null) @@ ("analysis_json" :> Null)
    @@ ("follow_up_questions" :> Null) @@ ("agent_trajectory" :> Null)
    @@ ("status" :> PENDING)

\* a loop that removes no tag
RemoveTagsNone(d, id, names) == d

RECURSIVE RemoveTags(_, _, _)
RemoveTags(d, id, names) ==
  IF names = {} THEN d
  ELSE LET t == CHOOSE x \in names : TRUE
       IN  RemoveTags(removeTagFromEntry(d, id, t), id, names \ {t})

\* a transcribe handler that clears the entry before the STT call
BeforeSttClearsAlways(kind, d, f, id, fsf) ==
  updateEntry(RemoveTags(d, id, getEntryTags(d, id)), f, id,
              ClearedFields, now, fsf)

\* what the handler does between await c.req.json() and the STT call,
\* before it reads the audio file.  transcribe: nothing.  retranscribe:
\* remove every tag of the entry, then clear the transcript and the analysis
BeforeStt(kind, d, f, id, fsf) ==
  IF kind = "retranscribe"
  THEN updateEntry(RemoveTags(d, id, getEntryTags(d, id)), f, id,
                   ClearedFields, now, fsf)
  ELSE [db |-> d, files |-> f, ret |-> TRUE, threw |-> FALSE]

\* the try block up to the STT call; readFileSync(entry.audio_path) throws
\* when the file is missing
SttBody(r, fsf) ==
  /\ ~Busy
  /\ req[r].pc = "s_body"
  /\ Inject(fsf)
  /\ req[r].kind = "transcribe" => fsf = NoFsFault
  /\ UNCHANGED <<now, issued, sent, lastAgentAnalysis>>
  /\ LET c == BeforeStt(req[r].kind, db, files, req[r].id, fsf)
         rec == [req[r] EXCEPT !.ran = Cardinality(getEntryTags(db, req[r].id)
                                                     \ getEntryTags(c.db, req[r].id))]
     IN  IF ~Exists(c.files, req[r].audioPath)
         THEN Answer(r, rec, 500, "read", c.db, c.files)
         ELSE Step(r, [rec EXCEPT !.pc = "s_stt"], c.db, c.files)

\* stt.transcribe fails (after the retries of the provider)
SttFail(r) ==
  /\ ~Busy
  /\ req[r].pc = "s_stt"
  /\ UNCHANGED <<now, issued, sent, lastAgentAnalysis, faults>>
  /\ Answer(r, req[r], 500, "stt", db, files)

\* stt.transcribe returns: the transcript is stored
SttSuccess(r, result, fsf) ==
  /\ ~Busy
  /\ req[r].pc = "s_stt"
  /\ Inject(fsf)
  /\ UNCHANGED <<now, issued, sent, lastAgentAnalysis>>
  /\ LET u == updateEntry(db, files, req[r].id,
                ("transcript" :> result.text)
                  @@ ("audio_duration_seconds" :> result.duration)
                  @@ ("status" :> TRANSCRIBED),
                now, fsf)
     IN  Answer(r, req[r], 200, "", u.db, u.files)

(***************************************************************************)
(* POST /entries/:id/analyze                                               *)
(***************************************************************************)
\* a handler that opens the transaction before it calls the agent
AnalyzeStartBeginsTx(r, id) ==
  /\ CanStart(r)
  /\ sent' = sent + 1
  /\ UNCHANGED <<now, issued, lastAgentAnalysis, faults>>
  /\ IF ~HasEntry(db, id)
     THEN Answer(r, NewReq("analyze", id), 404, "not_found", db, files)
     ELSE IF ~Truthy(db.entries[id]["transcript"])
     THEN Answer(r, NewReq("analyze", id), 400, "no_transcript", db, files)
     ELSE Step(r, [NewReq("analyze", id) EXCEPT !.pc = "a_agent", !.tx = TRUE],
               db, files)

AnalyzeStart(r, id) ==
  /\ CanStart(r)
  /\ sent' = sent + 1
  /\ UNCHANGED <<now, issued, lastAgentAnalysis, faults>>
  /\ IF ~HasEntry(db, id)
     THEN Answer(r, NewReq("analyze", id), 404, "not_found", db, files)
     ELSE IF ~Truthy(db.entries[id]["transcript"])
     THEN Answer(r, NewReq("analyze", id), 400, "no_transcript", db, files)
     ELSE Step(r, [NewReq("analyze", id) EXCEPT !.pc = "a_agent"], db, files)

\* analyzeTranscript: the agent fails
AnalyzeAgentFail(r) ==
  /\ ~Busy
  /\ req[r].pc = "a_agent"
  /\ UNCHANGED <<now, issued, sent, lastAgentAnalysis, faults>>
  /\ Answer(r, req[r], 500, "agent", db, files)

\* analyzeTranscript: the agent returns; the full result is kept in
\* lastAgentAnalysis and the handler gets it without related_entries
AnalyzeAgentReturn(r, result) ==
  /\ ~Busy
  /\ req[r].pc = "a_agent"
  /\ lastAgentAnalysis' =
       [set |-> TRUE, related_entries |-> result.related_entries]
  /\ UNCHANGED <<now, issued, sent, faults>>
  /\ Step(r, [req[r] EXCEPT
                !.pc = "a_related",
                !.returned = result.related_entries,
                !.analysis = [result EXCEPT !.related_entries = << >>]],
          db, files)

RelatedLimit == 5

\* findRelatedEntries: the related entries of lastAgentAnalysis that exist
findRelatedEntries(d, cache) ==
  IF ~cache.set THEN << >>
  ELSE SelectSeq(SubSeq(cache.related_entries, 1,
                        Min(Len(cache.related_entries), RelatedLimit)),
                 LAMBDA x : HasEntry(d, x.id))

AnalyzeFindRelated(r) ==
  /\ ~Busy
  /\ req[r].pc = "a_related"
  /\ lastAgentAnalysis' = NoCache
  /\ UNCHANGED <<now, issued, sent, faults>>
  /\ Step(r, [req[r] EXCEPT
                !.pc = "a_tx",
                !.related = findRelatedEntries(db, lastAgentAnalysis)],
          db, files)

\* the statements of the analyze transaction, in order
AnalyzeOps(analysis, related) ==
  [i \in 1 .. Len(analysis.tags) |-> [op |-> "tag", name |-> analysis.tags[i]]]
    \o [i \in 1 .. Len(related) |->
          [op |-> "link", target |-> related[i].id, reason |-> related[i].reason]]
    \o <<[op |-> "update",
          updates |-> ("title" :> analysis.title) @@ ("analysis_json" :> JsonDoc)
                        @@ ("follow_up_questions" :> JsonDoc)
                        @@ ("agent_trajectory" :> JsonDoc)
                        @@ ("status" :> ANALYZED)]>>

\* runs the statements from the k-th on; ctx.inject is the number of the
\* statement at which an injected error is thrown (0: none)
RECURSIVE RunOps(_, _, _, _)
RunOps(st, ops, k, ctx) ==
  IF ops = << >> THEN st
  ELSE IF k = ctx.inject THEN [st EXCEPT !.threw = TRUE]
  ELSE
    LET o == Head(ops)
        nx == CASE o.op = "tag" ->
                     LET a == addTagToEntry(st.db, ctx.id, o.name)
                     IN  [st EXCEPT !.db = a.db, !.threw = a.threw]
                [] o.op = "link" ->
                     LET l == linkEntries(st.db, ctx.id, o.target, o.reason)
                     IN  [st EXCEPT !.db = l.db, !.threw = l.threw]
                [] OTHER ->
                     LET u == updateEntry(st.db, st.files, ctx.id, o.updates,
                                          ctx.now, ctx.fsf)
                     IN  [st EXCEPT !.db = u.db, !.files = u.files,
                                    !.ret = u.ret, !.threw = u.threw]
    IN  IF nx.threw THEN nx
        ELSE RunOps([nx EXCEPT !.ran = @ + 1], Tail(ops), k + 1, ctx)

\* the function passed to withTransaction by the analyze handler
AnalyzeTx(d, f, id, analysis, related, inject, fsf) ==
  RunOps([db |-> d, files |-> f, ret |-> FALSE, threw |-> FALSE, ran |-> 0],
         AnalyzeOps(analysis, related), 1,
         [id |-> id, now |-> now, fsf |-> fsf, inject |-> inject])

\* withTransaction(...) of the handler, the null check and the response
AnalyzeCommit(r, inject, fsf) ==
  /\ ~Busy
  /\ req[r].pc = "a_tx"
  /\ Inject(<<inject # 0, fsf.unlink, fsf.write>>)
  /\ UNCHANGED <<now, issued, sent, lastAgentAnalysis>>
  /\ LET t == withTransaction(db,
                AnalyzeTx(db, files, req[r].id, req[r].analysis,
                          req[r].related, inject, fsf))
     IN  Answer(r, [req[r] EXCEPT !.ran = t.ran],
                IF t.threw \/ ~t.ret THEN 500 ELSE 200,
                IF t.threw THEN "tx" ELSE IF ~t.ret THEN "null" ELSE "",
                t.db, t.files)

(***************************************************************************)
(* PATCH /entries/:id                                                      *)
(***************************************************************************)
PatchEntry(r, id, body, fsf) ==
  /\ CanStart(r)
  /\ sent' = sent + 1
  /\ Inject(fsf)
  /\ UNCHANGED <<now, issued, lastAgentAnalysis>>
  /\ LET parsed == safeParse(body)
     IN  IF ~parsed.success
         THEN Answer(r, [NewReq("patch", id) EXCEPT !.keys = DOMAIN body],
                     400, "invalid_body", db, files)
         ELSE LET u == updateEntry(db, files, id, parsed.data, now, fsf)
              IN  Answer(r, [NewReq("patch", id) EXCEPT !.keys = DOMAIN body],
                         IF u.threw THEN 500 ELSE IF u.ret THEN 200 ELSE 404,
                         IF u.threw THEN "sql"
                         ELSE IF u.ret THEN "" ELSE "not_found",
                         u.db, u.files)

(***************************************************************************)
(* DELETE /entries/:id: deleteEntry, statement by statement                *)
(***************************************************************************)
\* a deleteEntry that removes the audio file before the row
DeleteStartUnlinksFirst(r, id) ==
  /\ CanStart(r)
  /\ sent' = sent + 1
  /\ UNCHANGED <<now, issued, lastAgentAnalysis, faults>>
  /\ IF ~HasEntry(db, id)
     THEN Answer(r, NewReq("delete", id), 404, "not_found", db, files)
     ELSE Step(r, [NewReq("delete", id) EXCEPT
                     !.pc = "d_db",
                     !.audioPath = db.entries[id]["audio_path"],
                     !.mdPath = getMarkdownPath(EntryOf(db.entries[id]))],
               db,
               IF Exists(files, db.entries[id]["audio_path"])
               THEN unlinkSync(files, db.entries[id]["audio_path"])
               ELSE files)

\* getEntry and the paths stored before the deletion
DeleteStart(r, id) ==
  /\ CanStart(r)
  /\ sent' = sent + 1
  /\ UNCHANGED <<now, issued, lastAgentAnalysis, faults>>
  /\ IF ~HasEntry(db, id)
     THEN Answer(r, NewReq("delete", id), 404, "not_found", db, files)
     ELSE Step(r, [NewReq("delete", id) EXCEPT
                     !.pc = "d_db",
                     !.audioPath = db.entries[id]["audio_path"],
                     !.mdPath = getMarkdownPath(EntryOf(db.entries[id]))],
               db, files)

\* withTransaction(() => DELETE FROM entries WHERE id = ?); dbFails: the
\* statement throws
DeleteDb(r, dbFails) ==
  /\ req[r].pc = "d_db"
  /\ Inject(<<dbFails>>)
  /\ UNCHANGED <<now, issued, sent, lastAgentAnalysis>>
  /\ LET t == withTransaction(db,
                [db |-> DeleteRow(db, req[r].id), files |-> files,
                 ret |-> TRUE, threw |-> dbFails])
     IN  IF t.threw
         THEN Answer(r, req[r], 500, "db", t.db, t.files)
         ELSE Step(r, [req[r] EXCEPT
                         !.pc = "d_audio",
                         !.ran = Cardinality(db.entry_tags \ t.db.entry_tags)
                                 + Cardinality(DOMAIN db.entry_links
                                                 \ DOMAIN t.db.entry_links)],
                   t.db, t.files)

\* the same deletion without the try / catch
TryUnlinkNoCatch(f, path, unlinkFails) ==
  [files |-> IF Exists(f, path) /\ ~unlinkFails THEN unlinkSync(f, path) ELSE f,
   failed |-> Exists(f, path) /\ unlinkFails,
   threw |-> Exists(f, path) /\ unlinkFails]

\* if (existsSync(path)) { try { unlinkSync(path) } catch { log } }
\* failed: unlinkSync threw; threw: the exception left the block
TryUnlink(f, path, unlinkFails) ==
  [files |-> IF Exists(f, path) /\ ~unlinkFails THEN unlinkSync(f, path) ELSE f,
   failed |-> Exists(f, path) /\ unlinkFails,
   threw |-> FALSE]

\* one of the three file deletions of deleteEntry: when attempted is false
\* the condition before it skips it; next is the position after it
DeleteFile(r, attempted, path, unlinkFails, next) ==
  /\ Inject(<<unlinkFails>>)
  /\ UNCHANGED <<now, issued, sent, lastAgentAnalysis>>
  /\ LET u == IF attempted THEN TryUnlink(files, path, unlinkFails)
              ELSE [files |-> files, failed |-> FALSE, threw |-> FALSE]
         rec == [req[r] EXCEPT !.fsErr = @ \/ u.failed]
     IN  IF u.threw THEN Answer(r, rec, 500, "fs", db, u.files)
         ELSE IF next = "done" THEN Answer(r, rec, 200, "", db, u.files)
         ELSE Step(r, [rec EXCEPT !.pc = next], db, u.files)

DeleteAudio(r, unlinkFails) ==
  /\ req[r].pc = "d_audio"
  /\ DeleteFile(r, Truthy(req[r].audioPath), req[r].audioPath, unlinkFails,
                "d_md")

DeleteMd(r, unlinkFails) ==
  /\ req[r].pc = "d_md"
  /\ DeleteFile(r, TRUE, req[r].mdPath, unlinkFails, "d_idmd")

\* the id-based file of a renamed entry, then return true
DeleteIdMd(r, unlinkFails) ==
  /\ req[r].pc = "d_idmd"
  /\ DeleteFile(r, req[r].mdPath # getIdBasedMarkdownPath(req[r].id),
                getIdBasedMarkdownPath(req[r].id), unlinkFails, "done")

(***************************************************************************)
(* POST /entries/:id/tags and DELETE /entries/:id/tags/:tag                *)
(***************************************************************************)
PostTag(r, id, tag) ==
  /\ CanStart(r)
  /\ sent' = sent + 1
  /\ UNCHANGED <<now, issued, lastAgentAnalysis, faults>>
  /\ IF tag = << >>
     THEN Answer(r, NewReq("add_tag", id), 400, "no_tag", db, files)
     ELSE LET a == addTagToEntry(db, id, tag)
          IN  Answer(r, NewReq("add_tag", id),
                     IF a.threw THEN 500 ELSE 200,
                     IF a.threw THEN "sql" ELSE "",
                     a.db, files)

DeleteTag(r, id, tag) ==
  /\ CanStart(r)
  /\ sent' = sent + 1
  /\ UNCHANGED <<now, issued, lastAgentAnalysis, faults>>
  /\ Answer(r, NewReq("remove_tag", id), 200, "",
            removeTagFromEntry(db, id, tag), files)

(***************************************************************************)
(* The server: requests arrive and suspended requests resume in any order. *)
(***************************************************************************)
Next ==
  \/ Tick
  \/ \E r \in Slots, t \in {Null, TextHi}, fsf \in FsFaults :
       PostEntryJson(r, t, fsf)
  \/ \E r \in Slots, up \in Uploads : PostEntryAudio(r, up)
  \/ \E r \in Slots, w \in BOOLEAN, fsf \in FsFaults : PostEntryAudioSave(r, w, fsf)
  \/ \E r \in Slots, id \in Ids : TranscribeStart(r, id)
  \/ \E r \in Slots, id \in Ids : RetranscribeStart(r, id)
  \/ \E r \in Slots, fsf \in FsFaults : SttBody(r, fsf)
  \/ \E r \in Slots : SttFail(r)
  \/ \E r \in Slots, res \in SttResults, fsf \in FsFaults : SttSuccess(r, res, fsf)
  \/ \E r \in Slots, id \in Ids : AnalyzeStart(r, id)
  \/ \E r \in Slots : AnalyzeAgentFail(r)
  \/ \E r \in Slots, res \in AgentResults : AnalyzeAgentReturn(r, res)
  \/ \E r \in Slots : AnalyzeFindRelated(r)
  \/ \E r \in Slots, fsf \in FsFaults :
       \E inject \in 0 .. Len(AnalyzeOps(req[r].analysis, req[r].related)) :
          AnalyzeCommit(r, inject, fsf)
  \/ \E r \in Slots, id \in Ids, body \in PatchBodies, fsf \in FsFaults :
       PatchEntry(r, id, body, fsf)
  \/ \E r \in Slots, id \in Ids : DeleteStart(r, id)
  \/ \E r \in Slots, f \in BOOLEAN : DeleteDb(r, f)
  \/ \E r \in Slots, f \in BOOLEAN : DeleteAudio(r, f)
  \/ \E r \in Slots, f \in BOOLEAN : DeleteMd(r, f)
  \/ \E r \in Slots, f \in BOOLEAN : DeleteIdMd(r, f)
  \/ \E r \in Slots, id \in Ids, tag \in TagInputs : PostTag(r, id, tag)
  \/ \E r \in Slots, id \in Ids, tag \in TagInputs : DeleteTag(r, id, tag)

Spec == Init /\ [][Next]_vars

(***************************************************************************)
(* Direct calls of the exported updateEntry with arbitrary keys, next to   *)
(* the requests that create and patch entries.                             *)
(***************************************************************************)
DirectUpdates ==
  { ("title" :> TitleHi) @@ ("created_at" :> 1),
    "nosuchcolumn" :> TextHi,
    "status" :> TRANSCRIBED }

CallUpdateEntry(r, id, updates, fsf) ==
  /\ CanStart(r)
  /\ sent' = sent + 1
  /\ Inject(fsf)
  /\ UNCHANGED <<now, issued, lastAgentAnalysis>>
  /\ LET u == updateEntry(db, files, id, updates, now, fsf)
     IN  Answer(r, [NewReq("updateEntry", id) EXCEPT
                      !.keys = DOMAIN updates,
                      !.fsErr = fsf.write \/ fsf.unlink],
                0,
                IF u.threw THEN "threw" ELSE IF u.ret THEN "row" ELSE "null",
                u.db, u.files)

UpdNext ==
  \/ Tick
  \/ \E r \in Slots, t \in {Null, TextHi}, fsf \in FsFaults :
       PostEntryJson(r, t, fsf)
  \/ \E r \in Slots, id \in Ids, body \in PatchBodies, fsf \in FsFaults :
       PatchEntry(r, id, body, fsf)
  \/ \E r \in Slots, id \in Ids, updates \in DirectUpdates, fsf \in FsFaults :
       CallUpdateEntry(r, id, updates, fsf)

UpdSpec == Init /\ [][UpdNext]_vars

(***************************************************************************)
(* POST /entries/:id/audio-chunk and the chunk accumulator.                *)
(***************************************************************************)
\* an id that fails ENTRY_ID_PATTERN
BadId == 0

isValidEntryId(id) == id # BadId

ChunkSize == 30 * 1024 * 1024

\* the form data of a chunk request: the chunk (type and size in bytes),
\* index = "0" (first) and isLast; or no chunk
Chunks ==
  [present : {TRUE}, type : {<<"audio/webm">>}, size : {ChunkSize},
   first : BOOLEAN, isLast : BOOLEAN]
    \cup {[present |-> TRUE, type |-> <<"application/zip">>, size |-> ChunkSize,
           first |-> TRUE, isLast |-> FALSE],
          NoChunk}

\* Map.prototype.get(id) || 0, set and delete
MapGet(m, k) == IF k \in DOMAIN m THEN m[k] ELSE 0
MapSet(m, k, v) == [x \in DOMAIN m \cup {k} |-> IF x = k THEN v ELSE m[x]]
MapDelete(m, k) == [x \in DOMAIN m \ {k} |-> m[x]]

\* an audio file of n bytes, and the size of the file at a path
BytesOf(n) == <<"bytes", n>>
SizeOf(f, path) ==
  IF Exists(f, path) /\ Len(f[path]) = 2 THEN f[path][2] ELSE 0

appendFileSync(f, path, n) == writeFileSync(f, path, BytesOf(SizeOf(f, path) + n))

\* the id check and getEntry, up to await c.req.formData()
ChunkStart(r, id) ==
  /\ CanStart(r)
  /\ sent' = sent + 1
  /\ UNCHANGED <<now, issued, lastAgentAnalysis, faults, chunkAccumulator>>
  /\ IF ~isValidEntryId(id)
     THEN /\ SlotAnswer(r, NewReq("chunk", id), 400, "bad_id", db, files)
          /\ UNCHANGED chunkDone
     ELSE IF ~HasEntry(db, id)
     THEN /\ SlotAnswer(r, NewReq("chunk", id), 404, "not_found", db, files)
          /\ UNCHANGED chunkDone
     ELSE /\ SlotStep(r, [NewReq("chunk", id) EXCEPT !.pc = "c_form"], db, files)
          /\ chunkDone' = [chunkDone EXCEPT ![id] = FALSE]

\* the checks of the form data and of the running total, up to
\* await chunk.arrayBuffer()
ChunkForm(r, chunk) ==
  /\ ~Busy
  /\ req[r].pc = "c_form"
  /\ UNCHANGED <<now, issued, sent, lastAgentAnalysis, faults>>
  /\ LET id == req[r].id
         currentSize == MapGet(chunkAccumulator, id)
         newSize == currentSize + chunk.size
     IN  IF ~chunk.present
         THEN /\ SlotAnswer(r, req[r], 400, "no_chunk", db, files)
              /\ UNCHANGED chunkVars
         ELSE IF ~isAllowedAudioMimeType(chunk.type)
         THEN /\ SlotAnswer(r, req[r], 400, "mime", db, files)
              /\ UNCHANGED chunkVars
         ELSE IF newSize > MAX_FILE_SIZE_BYTES
         THEN /\ chunkAccumulator' = MapDelete(chunkAccumulator, id)
              /\ chunkDone' = [chunkDone EXCEPT ![id] = TRUE]
              /\ SlotAnswer(r, req[r], 413, "size", db, files)
         ELSE /\ SlotStep(r, [req[r] EXCEPT !.pc = "c_buffer",
                                            !.chunk = chunk,
                                            !.newSize = newSize],
                          db, files)
              /\ UNCHANGED chunkVars

\* after the awaits: write or append the chunk, record the total, and for
\* the last chunk forget the total and store the audio path
ChunkWrite(r, writeFails, fsf) ==
  /\ ~Busy
  /\ req[r].pc = "c_buffer"
  /\ Inject(<<writeFails, fsf.unlink, fsf.write>>)
  /\ UNCHANGED <<now, issued, sent, lastAgentAnalysis>>
  /\ LET id == req[r].id
         chunk == req[r].chunk
         audioPath == AudioFile(id, getExtensionFromMimeType(chunk.type))
         f1 == IF chunk.first
               THEN writeFileSync(files, audioPath, BytesOf(chunk.size))
               ELSE appendFileSync(files, audioPath, chunk.size)
         acc1 == MapSet(chunkAccumulator, id,
                        IF chunk.first THEN chunk.size ELSE req[r].newSize)
         u == updateEntry(db, f1, id, "audio_path" :> audioPath, now, fsf)
     IN  IF writeFails
         THEN /\ SlotAnswer(r, req[r], 500, "write", db, files)
              /\ UNCHANGED chunkVars
         ELSE IF chunk.isLast
         THEN /\ chunkAccumulator' = MapDelete(acc1, id)
              /\ chunkDone' = [chunkDone EXCEPT ![id] = TRUE]
              /\ SlotAnswer(r, req[r], 200, "last", u.db, u.files)
         ELSE /\ chunkAccumulator' = acc1
              /\ UNCHANGED chunkDone
              /\ SlotAnswer(r, req[r], 200, "", db, f1)

ChunkNext ==
  \/ \E r \in Slots, t \in {Null, TextHi}, fsf \in FsFaults :
       PostEntryJson(r, t, fsf)
  \/ \E r \in Slots, id \in Ids \cup {BadId} : ChunkStart(r, id)
  \/ \E r \in Slots, chunk \in Chunks : ChunkForm(r, chunk)
  \/ \E r \in Slots, w \in BOOLEAN, fsf \in FsFaults : ChunkWrite(r, w, fsf)

ChunkSpec == Init /\ [][ChunkNext]_vars

(***************************************************************************)
(* withRetry and isRetryableError (services/retry.ts) and the STT provider *)
(* that calls them (services/stt.ts).  An error is its class, its name and *)
(* its message; a message is a sequence of tokens (words, separators and   *)
(* three-digit numbers).                                                   *)
(***************************************************************************)
\* largest maxAttempts option a caller passes
MaxAttemptsOpt == 3

\* DEFAULT_OPTIONS
DefaultMaxAttempts == 3
DefaultInitialDelayMs == 1000
DefaultMaxDelayMs == 10000
DefaultBackoffMultiplier == 2

apiVars ==
  <<db, files, now, issued, sent, lastAgentAnalysis, req, resp, faults,
    chunkAccumulator, chunkDone, lastCall>>

\* the flag i of the pattern, on the tokens the model uses
LowerToken(t) == IF t = "Status" \/ t = "STATUS" THEN "status" ELSE t

\* [:\s]
IsSep(t) == t \in {":", " "}

\* \d{3}
IsDigits3(t) == t \in {"400", "404", "429", "500", "503"}

parseInt(t) ==
  CASE t = "400" -> 400
    [] t = "404" -> 404
    [] t = "429" -> 429
    [] t = "500" -> 500
    [] t = "503" -> 503
    [] OTHER -> NoNum

\* String(status) of a template literal
StatusText(n) ==
  CASE n = 400 -> "400"
    [] n = 404 -> "404"
    [] n = 429 -> "429"
    [] n = 500 -> "500"
    [] n = 503 -> "503"
    [] OTHER -> "000"

\* index of the first token at or after j that is no separator
RECURSIVE SkipSeps(_, _)
SkipSeps(msg, j) ==
  IF j <= Len(msg) /\ IsSep(msg[j]) THEN SkipSeps(msg, j + 1) ELSE j

\* error.message.match(/status[:\s]+(\d{3})/i): the number of the leftmost
\* match, NoNum without a match
StatusMatch(msg) ==
  LET hits == {i \in 1 .. Len(msg) :
                 /\ LowerToken(msg[i]) = "status"
                 /\ i + 1 <= Len(msg)
                 /\ IsSep(msg[i + 1])
                 /\ SkipSeps(msg, i + 1) <= Len(msg)
                 /\ IsDigits3(msg[SkipSeps(msg, i + 1)])}
      first == CHOOSE i \in hits : \A k \in hits : i <= k
  IN  IF hits = {} THEN NoNum ELSE parseInt(msg[SkipSeps(msg, first + 1)])

\* error.message.includes('fetch')
IncludesFetch(msg) == \E i \in 1 .. Len(msg) : msg[i] = "fetch"

\* a classifier that retries every error
isRetryableErrorAlways(error) == TRUE

isRetryableError(error) ==
  IF error.class = "TypeError" /\ IncludesFetch(error.message) THEN TRUE
  ELSE IF error.class = "DOMException" /\ error.name = "AbortError" THEN TRUE
  ELSE IF error.class \in {"Error", "TypeError", "DOMException"}
          /\ StatusMatch(error.message) # NoNum
  THEN StatusMatch(error.message) >= 500 \/ StatusMatch(error.message) = 429
  ELSE TRUE

\* the option isRetryable: the default, or a function that returns false
isRetryable(classifier, error) ==
  IF classifier = "never" THEN FALSE ELSE isRetryableError(error)

\* errors thrown by a function passed to withRetry
FnErrors ==
  { [class |-> "Error", name |-> "Error",
     message |-> <<"status", ":", " ", "400", " ", "bad request">>],
    [class |-> "Error", name |-> "Error",
     message |-> <<"HTTP", " ", "Status", " ", "404">>],
    [class |-> "Error", name |-> "Error",
     message |-> <<"status", ":", " ", "429">>],
    [class |-> "Error", name |-> "Error",
     message |-> <<"status", ":", " ", "500">>],
    [class |-> "TypeError", name |-> "TypeError",
     message |-> <<"fetch", " ", "failed">>],
    [class |-> "DOMException", name |-> "AbortError",
     message |-> <<"The operation was aborted">>],
    [class |-> "Error", name |-> "Error",
     message |-> <<"temporary failure">>] }

\* outcomes of one invocation of such a function
FnOutcomes ==
  [ok : {TRUE}, value : {"a", "b"}, status : {0}, error : {NoError}]
    \cup [ok : {FALSE}, value : {""}, status : {0}, error : FnErrors]

\* what the Whisper service does with one request: an HTTP response, no
\* connection, or no reply before the timeout of fetchWithTimeout
SttReplies ==
  [kind : {"response"}, status : {200, 400, 429, 503}]
    \cup {[kind |-> "network", status |-> 0], [kind |-> "timeout", status |-> 0]}

\* the function FasterWhisperProvider.transcribe passes to withRetry
SttAttempt(reply) ==
  IF reply.kind = "network"
  THEN [ok |-> FALSE, value |-> "", status |-> 0,
        error |-> [class |-> "TypeError", name |-> "TypeError",
                   message |-> <<"fetch", " ", "failed">>]]
  ELSE IF reply.kind = "timeout"
  THEN [ok |-> FALSE, value |-> "", status |-> 0,
        error |-> [class |-> "DOMException", name |-> "AbortError",
                   message |-> <<"The operation was aborted">>]]
  ELSE IF reply.status >= 200 /\ reply.status <= 299
  THEN [ok |-> TRUE, value |-> "a", status |-> reply.status, error |-> NoError]
  ELSE [ok |-> FALSE, value |-> "", status |-> reply.status,
        error |-> [class |-> "Error", name |-> "Error",
                   message |-> <<"Whisper transcription failed", ":", " ",
                                 StatusText(reply.status), " - ", "body">>]]

\* the calls of withRetry: a function with any options, or the STT provider
\* ({ maxAttempts: 3, onRetry }); maxAttempts NoNum: the option is absent
RetryCalls ==
  [caller : {"fn"}, maxAttempts : {NoNum} \cup (0 .. MaxAttemptsOpt),
   classifier : {"default", "never"}]
    \cup {[caller |-> "stt", maxAttempts |-> 3, classifier |-> "default"]}

\* a test that stops only at an error that is not retryable
ShouldStopIgnoresAttempts(attempt, maxAttempts, retryable) == ~retryable

\* attempt >= maxAttempts || !isRetryable(error)
ShouldStop(attempt, maxAttempts, retryable) ==
  attempt >= maxAttempts \/ ~retryable

\* withRetry is called: the options are read and the loop is entered
RetryCall(call) ==
  /\ retry.phase = "idle"
  /\ LET maxAttempts == IF call.maxAttempts = NoNum THEN DefaultMaxAttempts
                        ELSE call.maxAttempts
         r0 == [RetryIdle EXCEPT !.caller = call.caller,
                                 !.maxAttempts = maxAttempts,
                                 !.classifier = call.classifier,
                                 !.attempt = 1,
                                 !.initialDelayMs = DefaultInitialDelayMs,
                                 !.maxDelayMs = DefaultMaxDelayMs,
                                 !.backoffMultiplier = DefaultBackoffMultiplier,
                                 !.delayMs = DefaultInitialDelayMs]
     IN  retry' = IF 1 <= maxAttempts THEN [r0 EXCEPT !.phase = "calling"]
                  ELSE [r0 EXCEPT !.phase = "threw"]
  /\ UNCHANGED apiVars

\* one pass of the loop body: await fn(), and the catch block up to sleep
RetryAttempt(outcome) ==
  /\ retry.phase = "calling"
  /\ outcome \in (IF retry.caller = "stt"
                  THEN {SttAttempt(reply) : reply \in SttReplies}
                  ELSE FnOutcomes)
  /\ LET r1 == [retry EXCEPT !.outcomes = Append(@, outcome)]
     IN  retry' =
           IF outcome.ok
           THEN [r1 EXCEPT !.phase = "returned", !.result = outcome.value]
           ELSE IF ShouldStop(retry.attempt, retry.maxAttempts,
                              isRetryable(retry.classifier, outcome.error))
           THEN [r1 EXCEPT !.phase = "threw", !.lastError = outcome.error,
                           !.error = outcome.error]
           ELSE [r1 EXCEPT !.phase = "sleeping", !.lastError = outcome.error,
                           !.notified = @ + 1]
  /\ UNCHANGED apiVars

\* sleep(delayMs) is over: the next delay is computed, with a jitter of 0 or
\* of a tenth of the delay, and the loop goes on or ends
RetryWake(jitterHigh) ==
  /\ retry.phase = "sleeping"
  /\ LET jitter == IF jitterHigh THEN retry.delayMs \div 10 ELSE 0
         r1 == [retry EXCEPT
                  !.slept = Append(@, retry.delayMs),
                  !.delayMs = Min(retry.delayMs * retry.backoffMultiplier + jitter,
                                  retry.maxDelayMs),
                  !.attempt = @ + 1]
     IN  retry' = IF r1.attempt <= r1.maxAttempts
                  THEN [r1 EXCEPT !.phase = "calling"]
                  ELSE [r1 EXCEPT !.phase = "threw", !.error = r1.lastError]
  /\ UNCHANGED apiVars

\* the delay options of a call; NoNum: the option is absent
DelayOptions ==
  [initialDelayMs : {NoNum, 100, 20000}, maxDelayMs : {NoNum, 5000},
   backoffMultiplier : {NoNum, 1, 3}]

\* the default of a destructured option
OptionOr(v, default) == IF v = NoNum THEN default ELSE v

\* withRetry is called with delay options and maxAttempts: MaxAttemptsOpt
RetryCallDelays(opts) ==
  /\ retry.phase = "idle"
  /\ retry' = [RetryIdle EXCEPT
                 !.phase = "calling",
                 !.caller = "fn",
                 !.maxAttempts = MaxAttemptsOpt,
                 !.classifier = "default",
                 !.attempt = 1,
                 !.initialDelayMs = OptionOr(opts.initialDelayMs, DefaultInitialDelayMs),
                 !.maxDelayMs = OptionOr(opts.maxDelayMs, DefaultMaxDelayMs),
                 !.backoffMultiplier =
                    OptionOr(opts.backoffMultiplier, DefaultBackoffMultiplier),
                 !.delayMs = OptionOr(opts.initialDelayMs, DefaultInitialDelayMs)]
  /\ UNCHANGED apiVars

RetryNext ==
  \/ \E call \in RetryCalls : RetryCall(call)
  \/ \E outcome \in FnOutcomes \cup {SttAttempt(reply) : reply \in SttReplies} :
       RetryAttempt(outcome)
  \/ \E j \in BOOLEAN : RetryWake(j)

RetrySpec == Init /\ [][RetryNext]_vars

BackoffNext ==
  \/ \E opts \in DelayOptions : RetryCallDelays(opts)
  \/ \E outcome \in FnOutcomes : RetryAttempt(outcome)
  \/ \E j \in BOOLEAN : RetryWake(j)

BackoffSpec == Init /\ [][BackoffNext]_vars

(***************************************************************************)
(* Progress of transcribe and analyze requests.  The steps a handler takes *)
(* on its own happen eventually.  The STT call ends: every request of the  *)
(* provider is aborted by the timer of fetchWithTimeout and withRetry      *)
(* gives up after maxAttempts, so a call that got no answer fails.  The    *)
(* agent call has no timer: it ends only if the agent replies.             *)
(***************************************************************************)
LiveNext ==
  \/ \E r \in Slots, t \in {TextHi}, fsf \in {NoFsFault} :
       PostEntryJson(r, t, fsf)
  \/ \E r \in Slots, up \in Uploads : PostEntryAudio(r, up)
  \/ \E r \in Slots, w \in BOOLEAN, fsf \in {NoFsFault} :
       PostEntryAudioSave(r, w, fsf)
  \/ \E r \in Slots, id \in Ids : TranscribeStart(r, id)
  \/ \E r \in Slots : SttBody(r, NoFsFault)
  \/ \E r \in Slots : SttFail(r)
  \/ \E r \in Slots, res \in SttResults : SttSuccess(r, res, NoFsFault)
  \/ \E r \in Slots, id \in Ids : AnalyzeStart(r, id)
  \/ \E r \in Slots : AnalyzeAgentFail(r)
  \/ \E r \in Slots, res \in AgentResults : AnalyzeAgentReturn(r, res)
  \/ \E r \in Slots : AnalyzeFindRelated(r)
  \/ \E r \in Slots : AnalyzeCommit(r, 0, NoFsFault)

\* the steps that happen without a reply from outside: the continuation of
\* a handler, and the failure of the STT call when its timers expire
Progress ==
  \E r \in Slots :
     \/ SttBody(r, NoFsFault)
     \/ SttFail(r)
     \/ AnalyzeFindRelated(r)

\* the step of AnalyzeCommit seen on the request alone: the handler is at
\* its transaction and returns.  The transaction and the response are
\* synchronous code with no wait, so the step is enabled whenever the
\* handler is there
AnalyzeCommitReturns ==
  \E r \in Slots :
     /\ ~Busy
     /\ req[r].pc = "a_tx"
     /\ req' = [req EXCEPT ![r] = IdleSlot]

LiveSpec ==
  Init /\ [][LiveNext]_vars /\ WF_vars(Progress) /\ WF_req(AnalyzeCommitReturns)

(***************************************************************************)
(* Direct calls of the exported functions of services/storage.ts, in any   *)
(* order.                                                                  *)
(***************************************************************************)
\* number of direct calls in one behaviour
MaxCalls == 4

\* a call that leaves the database d2 and the files f2
Called(c, d2, f2) ==
  /\ lastCall.n < MaxCalls
  /\ lastCall' = [c EXCEPT !.pre = db, !.n = lastCall.n + 1]
  /\ db' = d2
  /\ files' = f2
  /\ UNCHANGED <<now, sent, lastAgentAnalysis, req, resp, faults, retry>>
  /\ UNCHANGED chunkVars

(***************************************************************************)
(* The cache table: getCache and setCache.                                 *)
(***************************************************************************)
\* an optional argument that is not supplied
Undefined == <<"UNDEFINED">>

\* JSON.stringify of an array of strings, and JSON.parse, which throws on
\* a text that is no JSON document
JSON_stringify(v) == <<"[">> \o v \o <<"]">>

JSON_parse(t) ==
  IF Len(t) >= 2 /\ t[1] = "[" /\ t[Len(t)] = "]"
  THEN [ok |-> TRUE, value |-> SubSeq(t, 2, Len(t) - 1)]
  ELSE [ok |-> FALSE, value |-> Null]

\* getCache: null for a missing row, for a supplied token that differs from
\* the stored depends_on, and for a value that does not parse
getCache(d, key, dependsOn) ==
  IF key \notin DOMAIN d.cache THEN Null
  ELSE LET cached == d.cache[key]
       IN  IF dependsOn # Undefined /\ cached.depends_on # dependsOn THEN Null
           ELSE IF JSON_parse(cached.value).ok
           THEN JSON_parse(cached.value).value
           ELSE Null

\* setCache: INSERT OR REPLACE of (key, JSON.stringify(value),
\* dependsOn || null, datetime('now'))
setCache(d, key, value, dependsOn, t) ==
  [d EXCEPT !.cache =
     [k \in DOMAIN d.cache \cup {key} |->
        IF k = key
        THEN [value |-> JSON_stringify(value),
              depends_on |-> IF dependsOn = Undefined \/ ~Truthy(dependsOn)
                             THEN Null ELSE dependsOn,
              created_at |-> t]
        ELSE d.cache[k]]]

\* keys, values and tokens of the calls: the ids of two entries and the
\* empty string as tokens
CacheKeys == {<<"interview_questions">>, <<"k">>}
CacheValues == {<<"q1">>, <<"q2">>}
CacheTokens == {<<"1">>, <<"2">>, << >>}

CacheNext ==
  \/ Tick
  \/ \E key \in CacheKeys, value \in CacheValues,
        dependsOn \in CacheTokens \cup {Undefined} :
       /\ Called([NoCall EXCEPT !.fn = "setCache", !.name = key,
                                !.value = value, !.token = dependsOn],
                 setCache(db, key, value, dependsOn, now), files)
       /\ UNCHANGED issued
  \/ \E key \in CacheKeys, dependsOn \in CacheTokens \cup {Undefined} :
       /\ Called([NoCall EXCEPT !.fn = "getCache", !.name = key,
                                !.token = dependsOn,
                                !.ret = getCache(db, key, dependsOn)],
                 db, files)
       /\ UNCHANGED issued

CacheSpec == Init /\ [][CacheNext]_vars

(***************************************************************************)
(* The HEAD entry: analyses of entries that exist when the server starts.  *)
(***************************************************************************)
\* SELECT * FROM entries WHERE status = 'analyzed' ORDER BY created_at DESC
\* LIMIT 1: the ids of the rows the query can return (none: null; several:
\* rows with the same created_at, whose order SQL leaves open)
getHeadAnalyzedEntry(d) ==
  LET analyzed == {i \in DOMAIN d.entries : d.entries[i]["status"] = ANALYZED}
  IN  {i \in analyzed :
         \A j \in analyzed : d.entries[j]["created_at"] <= d.entries[i]["created_at"]}

\* the database and the files after POST /entries with a JSON transcript at
\* time 0 and again at time 1
TwoTextEntries ==
  LET body == ("transcript" :> TextHi) @@ ("status" :> TRANSCRIBED)
      u1 == updateEntry(createEntry(EmptyDb, 1, Null, 0), << >>, 1, body, 0,
                        NoFsFault)
      u2 == updateEntry(createEntry(u1.db, 2, Null, 1), u1.files, 2, body, 1,
                        NoFsFault)
  IN  u2

HeadInit ==
  /\ db = TwoTextEntries.db
  /\ files = TwoTextEntries.files
  /\ now = 1
  /\ issued = 2
  /\ sent = 0
  /\ lastAgentAnalysis = NoCache
  /\ req = [r \in Slots |-> IdleSlot]
  /\ resp = NoResp
  /\ faults = 0
  /\ chunkAccumulator = << >>
  /\ chunkDone = [id \in Ids |-> FALSE]
  /\ retry = RetryIdle
  /\ lastCall = NoCall

HeadNext ==
  \/ \E r \in Slots, id \in Ids : AnalyzeStart(r, id)
  \/ \E r \in Slots : AnalyzeAgentFail(r)
  \/ \E r \in Slots, res \in AgentResults : AnalyzeAgentReturn(r, res)
  \/ \E r \in Slots : AnalyzeFindRelated(r)
  \/ \E r \in Slots : AnalyzeCommit(r, 0, NoFsFault)

HeadSpec == HeadInit /\ [][HeadNext]_vars

(***************************************************************************)
(* Tags: createEntry, getOrCreateTag, addTagToEntry, removeTagFromEntry.   *)
(***************************************************************************)
\* tag names that differ in case and in surrounding whitespace
TagSpellings == {TagWork, <<"W", " ">>, TagTravel}

\* createEntry(): generateId and the INSERT
CallCreateEntry ==
  /\ issued < MaxEntries
  /\ Called([NoCall EXCEPT !.fn = "createEntry", !.num = issued + 1],
            createEntry(db, issued + 1, Null, now), files)
  /\ issued' = issued + 1

TagNext ==
  \/ CallCreateEntry
  \/ \E name \in TagSpellings :
       LET d2 == getOrCreateTag(db, name)
       IN  /\ Called([NoCall EXCEPT
                        !.fn = "getOrCreateTag", !.name = name,
                        !.num = IF d2 = db THEN TagId(db, trim(toLowerCase(name)))
                                ELSE Len(d2.tags)],
                     d2, files)
           /\ UNCHANGED issued
  \/ \E id \in Ids, name \in TagSpellings :
       LET a == addTagToEntry(db, id, name)
       IN  /\ Called([NoCall EXCEPT !.fn = "addTagToEntry", !.id = id,
                                    !.name = name, !.threw = a.threw],
                     a.db, files)
           /\ UNCHANGED issued
  \/ \E id \in Ids, name \in TagSpellings :
       /\ Called([NoCall EXCEPT !.fn = "removeTagFromEntry", !.id = id,
                                !.name = name],
                 removeTagFromEntry(db, id, name), files)
       /\ UNCHANGED issued

TagSpec == Init /\ [][TagNext]_vars

(***************************************************************************)
(* Links: linkEntries and getLinkedEntries.                                *)
(***************************************************************************)
\* the rows of the UNION query: the targets of the links from entryId and
\* the sources of the links to entryId, each with the relationship; UNION
\* drops the rows that are equal in every column
getLinkedEntries(d, entryId) ==
  {[id |-> k[2], relationship |-> d.entry_links[k]] :
      k \in {l \in DOMAIN d.entry_links : l[1] = entryId}}
    \cup {[id |-> k[1], relationship |-> d.entry_links[k]] :
            k \in {l \in DOMAIN d.entry_links : l[2] = entryId}}

LinkNext ==
  \/ CallCreateEntry
  \/ \E a \in Ids, b \in Ids, rel \in {<<"r">>, <<"s">>, Undefined} :
       LET l == linkEntries(db, a, b, IF rel = Undefined THEN << >> ELSE rel)
       IN  /\ Called([NoCall EXCEPT !.fn = "linkEntries", !.id = a, !.id2 = b,
                                    !.name = rel, !.threw = l.threw],
                     l.db, files)
           /\ UNCHANGED issued

LinkSpec == Init /\ [][LinkNext]_vars

(***************************************************************************)
(* Search: escapeLikePattern and searchEntries.                            *)
(***************************************************************************)
\* the default of searchEntries' parameter limit
DefaultSearchLimit == 20

\* an escapeLikePattern that hands the query to LIKE unchanged
escapeLikePatternNone(query) == query

\* escapeLikePattern: a backslash before every backslash, % and _
RECURSIVE escapeLikePattern(_)
escapeLikePattern(query) ==
  IF query = << >> THEN << >>
  ELSE IF Head(query) \in {"\\", "%", "_"}
  THEN <<"\\", Head(query)>> \o escapeLikePattern(Tail(query))
  ELSE <<Head(query)>> \o escapeLikePattern(Tail(query))

\* text LIKE pattern ESCAPE '\' of SQLite: % matches any run of characters,
\* _ matches one character, the character after the escape character
\* matches itself, and letters match without regard to ASCII case; a
\* pattern that ends in the escape character matches nothing
RECURSIVE LikeMatch(_, _)
LikeMatch(pattern, text) ==
  IF pattern = << >> THEN text = << >>
  ELSE IF Head(pattern) = "%"
  THEN \E k \in 0 .. Len(text) :
         LikeMatch(Tail(pattern), SubSeq(text, k + 1, Len(text)))
  ELSE IF Head(pattern) = "_"
  THEN text # << >> /\ LikeMatch(Tail(pattern), Tail(text))
  ELSE IF Head(pattern) = "\\"
  THEN /\ Len(pattern) >= 2
       /\ text # << >>
       /\ toLowerCaseChar(pattern[2]) = toLowerCaseChar(Head(text))
       /\ LikeMatch(SubSeq(pattern, 3, Len(pattern)), Tail(text))
  ELSE /\ text # << >>
       /\ toLowerCaseChar(Head(pattern)) = toLowerCaseChar(Head(text))
       /\ LikeMatch(Tail(pattern), Tail(text))

\* column LIKE ?: NULL for a NULL column, which WHERE treats as false
ColumnLike(v, pattern) == v # Null /\ LikeMatch(pattern, v)

\* the rows of the WHERE clause of searchEntries
SearchMatches(d, query) ==
  LET pattern == <<"%">> \o escapeLikePattern(query) \o <<"%">>
  IN  {i \in DOMAIN d.entries :
         \/ ColumnLike(d.entries[i]["transcript"], pattern)
         \/ ColumnLike(d.entries[i]["title"], pattern)}

\* searchEntries: the ids of the rows the query can return, in the order
\* ORDER BY created_at DESC LIMIT ? (rows with the same created_at come in
\* either order)
searchEntries(d, query, limit) ==
  LET m == SearchMatches(d, query)
      n == Min(limit, Cardinality(m))
  IN  {s \in [1 .. n -> m] :
         /\ \A i, j \in 1 .. n : i # j => s[i] # s[j]
         /\ \A i, j \in 1 .. n :
              i < j => d.entries[s[i]]["created_at"] >= d.entries[s[j]]["created_at"]
         /\ \A x \in m \ {s[i] : i \in 1 .. n} : \A i \in 1 .. n :
              d.entries[x]["created_at"] <= d.entries[s[i]]["created_at"]}

\* transcripts and titles, and the queries of the searches
SearchTexts == {<<"H", "i">>, <<"5", "%">>, <<"a", "_", "b">>, <<"a", "w", "b">>}
SearchQueries == {TextHi, <<"%">>, <<"_">>, <<"\\">>, <<"a", "_", "b">>}

SearchNext ==
  \/ Tick
  \/ CallCreateEntry
  \/ \E id \in Ids, col \in {"transcript", "title"}, text \in SearchTexts :
       LET u == updateEntry(db, files, id, col :> text, now, NoFsFault)
       IN  /\ Called([NoCall EXCEPT !.fn = "updateEntry", !.id = id,
                                    !.name = text],
                     u.db, u.files)
           /\ UNCHANGED issued
  \/ \E query \in SearchQueries, limit \in {1, DefaultSearchLimit} :
       \E s \in searchEntries(db, query, limit) :
         /\ Called([NoCall EXCEPT !.fn = "searchEntries", !.name = query,
                                  !.num = limit, !.ret = s],
                   db, files)
         /\ UNCHANGED issued

SearchSpec == Init /\ [][SearchNext]_vars

(***************************************************************************)
(* Direct calls of syncEntryToMarkdown on the entry that getEntry returns. *)
(***************************************************************************)
SyncUpdates ==
  { ("title" :> TitleHi) @@ ("status" :> ANALYZED),
    "transcript" :> TextHi,
    "analysis_json" :> JsonDoc }

\* lastCall.num is 1 when the call has written the file, 0 when the write
\* failed; lastCall.again tells that the call before it was a call of
\* syncEntryToMarkdown on the same entry that has written the file
SyncNext ==
  \/ CallCreateEntry
  \/ \E id \in Ids, updates \in SyncUpdates :
       LET u == updateEntry(db, files, id, updates, now, NoFsFault)
       IN  /\ Called([NoCall EXCEPT !.fn = "updateEntry", !.id = id], u.db, u.files)
           /\ UNCHANGED issued
  \/ \E id \in Ids, name \in {TagWork, TagTravel} :
       LET a == addTagToEntry(db, id, name)
       IN  /\ Called([NoCall EXCEPT !.fn = "addTagToEntry", !.id = id,
                                    !.name = name, !.threw = a.threw],
                     a.db, files)
           /\ UNCHANGED issued
  \/ \E id \in Ids, fsf \in FsFaults :
       /\ HasEntry(db, id)
       /\ Called([NoCall EXCEPT
                    !.fn = "syncEntryToMarkdown", !.id = id,
                    !.num = IF fsf.write THEN 0 ELSE 1,
                    !.again = /\ lastCall.fn = "syncEntryToMarkdown"
                              /\ lastCall.id = id
                              /\ lastCall.num = 1],
                 db, syncEntryToMarkdown(db, files, db.entries[id], fsf))
       /\ UNCHANGED issued

SyncSpec == Init /\ [][SyncNext]_vars

(***************************************************************************)
(* The analyze transaction statement by statement: BEGIN IMMEDIATE, then  *)
(* the function and COMMIT or ROLLBACK, next to transcriptions.            *)
(***************************************************************************)
\* the database and the files after POST /entries with a JSON transcript
\* and POST /entries with an audio file, both at time 0
TextAndAudioEntries ==
  LET u1 == updateEntry(createEntry(EmptyDb, 1, Null, 0), << >>, 1,
                        ("transcript" :> TextHi) @@ ("status" :> TRANSCRIBED),
                        0, NoFsFault)
      path == AudioFile(2, getExtensionFromMimeType(<<"audio/webm", ";codecs=opus">>))
      u2 == updateEntry(createEntry(u1.db, 2, Null, 0),
                        writeFileSync(u1.files, path, AudioBytes), 2,
                        "audio_path" :> path, 0, NoFsFault)
  IN  u2

TxInit ==
  /\ db = TextAndAudioEntries.db
  /\ files = TextAndAudioEntries.files
  /\ now = 0
  /\ issued = 2
  /\ sent = 0
  /\ lastAgentAnalysis = NoCache
  /\ req = [r \in Slots |-> IdleSlot]
  /\ resp = NoResp
  /\ faults = 0
  /\ chunkAccumulator = << >>
  /\ chunkDone = [id \in Ids |-> FALSE]
  /\ retry = RetryIdle
  /\ lastCall = NoCall

\* db.exec("BEGIN IMMEDIATE") of withTransaction
AnalyzeTxBegin(r) ==
  /\ ~Busy
  /\ req[r].pc = "a_tx"
  /\ UNCHANGED <<now, issued, sent, lastAgentAnalysis, faults>>
  /\ Step(r, [req[r] EXCEPT !.pc = "a_in_tx", !.tx = TRUE], db, files)

\* fn(), then COMMIT, or ROLLBACK and rethrow; the null check and the
\* response of the handler
AnalyzeTxEnd(r, inject, fsf) ==
  /\ req[r].pc = "a_in_tx"
  /\ Inject(<<inject # 0, fsf.unlink, fsf.write>>)
  /\ UNCHANGED <<now, issued, sent, lastAgentAnalysis>>
  /\ LET t == withTransaction(db,
                AnalyzeTx(db, files, req[r].id, req[r].analysis,
                          req[r].related, inject, fsf))
     IN  Answer(r, [req[r] EXCEPT !.ran = t.ran],
                IF t.threw \/ ~t.ret THEN 500 ELSE 200,
                IF t.threw THEN "tx" ELSE IF ~t.ret THEN "null" ELSE "",
                t.db, t.files)

TxNext ==
  \/ \E r \in Slots, id \in Ids : TranscribeStart(r, id)
  \/ \E r \in Slots : SttBody(r, NoFsFault)
  \/ \E r \in Slots : SttFail(r)
  \/ \E r \in Slots, res \in SttResults : SttSuccess(r, res, NoFsFault)
  \/ \E r \in Slots, id \in Ids : AnalyzeStart(r, id)
  \/ \E r \in Slots : AnalyzeAgentFail(r)
  \/ \E r \in Slots, res \in AgentResults : AnalyzeAgentReturn(r, res)
  \/ \E r \in Slots : AnalyzeFindRelated(r)
  \/ \E r \in Slots : AnalyzeTxBegin(r)
  \/ \E r \in Slots :
       \E inject \in 0 .. Len(AnalyzeOps(req[r].analysis, req[r].related)) :
          AnalyzeTxEnd(r, inject, NoFsFault)

TxSpec == TxInit /\ [][TxNext]_vars

(***************************************************************************)
(* DELETE /entries/:id next to the handlers that suspend: transcribe,      *)
(* retranscribe, analyze and audio-chunk.  No filesystem call fails.       *)
(***************************************************************************)
DeleteRaceNext ==
  \/ \E r \in Slots, id \in Ids : DeleteStart(r, id)
  \/ \E r \in Slots : DeleteDb(r, FALSE)
  \/ \E r \in Slots : DeleteAudio(r, FALSE)
  \/ \E r \in Slots : DeleteMd(r, FALSE)
  \/ \E r \in Slots : DeleteIdMd(r, FALSE)
  \/ \E r \in Slots, id \in Ids : TranscribeStart(r, id)
  \/ \E r \in Slots, id \in Ids : RetranscribeStart(r, id)
  \/ \E r \in Slots : SttBody(r, NoFsFault)
  \/ \E r \in Slots : SttFail(r)
  \/ \E r \in Slots, res \in SttResults : SttSuccess(r, res, NoFsFault)
  \/ \E r \in Slots, id \in Ids : AnalyzeStart(r, id)
  \/ \E r \in Slots : AnalyzeAgentFail(r)
  \/ \E r \in Slots, res \in AgentResults : AnalyzeAgentReturn(r, res)
  \/ \E r \in Slots : AnalyzeFindRelated(r)
  \/ \E r \in Slots : AnalyzeCommit(r, 0, NoFsFault)
  \/ \E r \in Slots, id \in Ids : ChunkStart(r, id)
  \/ \E r \in Slots, chunk \in Chunks : ChunkForm(r, chunk)
  \/ \E r \in Slots : ChunkWrite(r, FALSE, NoFsFault)

DeleteRaceSpec == TxInit /\ [][DeleteRaceNext]_vars

(***************************************************************************)
(* GET /interview-questions, next to the requests that change the HEAD     *)
(* entry.                                                                  *)
(***************************************************************************)
\* the id of an entry as the text stored in depends_on
IdText(id) == IF id = 1 THEN <<"1">> ELSE <<"2">>

InterviewKey == <<"interview_questions">>

\* the list generateInterviewQuestions returns without a model call when
\* there is no analyzed entry
StockQuestions == <<"q0">>

\* the database and the files after POST /entries with a JSON transcript
\* and a successful POST /entries/1/analyze
OneAnalyzedEntry ==
  LET u == updateEntry(createEntry(EmptyDb, 1, Null, 0), << >>, 1,
                       ("transcript" :> TextHi) @@ ("status" :> TRANSCRIBED),
                       0, NoFsFault)
      analysis == [title |-> TitleHi, tags |-> <<TagWork>>,
                   related_entries |-> << >>]
  IN  AnalyzeTx(u.db, u.files, 1, analysis, << >>, 0, NoFsFault)

QuestionsInit ==
  /\ now = 0
  /\ db = OneAnalyzedEntry.db
  /\ files = OneAnalyzedEntry.files
  /\ issued = 1
  /\ sent = 0
  /\ lastAgentAnalysis = NoCache
  /\ req = [r \in Slots |-> IdleSlot]
  /\ resp = NoResp
  /\ faults = 0
  /\ chunkAccumulator = << >>
  /\ chunkDone = [id \in Ids |-> FALSE]
  /\ retry = RetryIdle
  /\ lastCall = NoCall

\* getHeadAnalyzedEntry, getCache and the cached answer, or listEntries up
\* to await generateInterviewQuestions; the request keeps headEntryId (0
\* for null) as its id
QuestionsStart(r) ==
  /\ CanStart(r)
  /\ sent' = sent + 1
  /\ UNCHANGED <<now, issued, lastAgentAnalysis, faults>>
  /\ \E headEntryId \in IF getHeadAnalyzedEntry(db) = {} THEN {0}
                         ELSE getHeadAnalyzedEntry(db) :
       LET cached == getCache(db, InterviewKey,
                              IF headEntryId = 0 THEN Undefined
                              ELSE IdText(headEntryId))
       IN  IF cached # Null
           THEN Answer(r, NewReq("questions", headEntryId), 200, "cached",
                       db, files)
           ELSE Step(r, [NewReq("questions", headEntryId) EXCEPT !.pc = "q_gen"],
                     db, files)

\* generateInterviewQuestions returns; setCache when headEntryId is set
QuestionsGenerated(r, questions) ==
  /\ ~Busy
  /\ req[r].pc = "q_gen"
  /\ questions = StockQuestions <=> req[r].id = 0
  /\ UNCHANGED <<now, issued, sent, lastAgentAnalysis, faults>>
  /\ Answer(r, req[r], 200, "generated",
            IF req[r].id # 0
            THEN setCache(db, InterviewKey, questions, IdText(req[r].id), now)
            ELSE db,
            files)

QuestionsNext ==
  \/ \E r \in Slots : QuestionsStart(r)
  \/ \E r \in Slots, questions \in CacheValues \cup {StockQuestions} :
       QuestionsGenerated(r, questions)
  \/ \E r \in Slots, t \in {TextHi} : PostEntryJson(r, t, NoFsFault)
  \/ \E r \in Slots, id \in Ids, body \in PatchBodies :
       PatchEntry(r, id, body, NoFsFault)
  \/ \E r \in Slots, id \in Ids : AnalyzeStart(r, id)
  \/ \E r \in Slots : AnalyzeAgentFail(r)
  \/ \E r \in Slots, res \in AgentResults : AnalyzeAgentReturn(r, res)
  \/ \E r \in Slots : AnalyzeFindRelated(r)
  \/ \E r \in Slots : AnalyzeCommit(r, 0, NoFsFault)

QuestionsSpec == QuestionsInit /\ [][QuestionsNext]_vars

(***************************************************************************)
(* Properties.                                                             *)
(***************************************************************************)

\* C1: when the analyze transaction throws, the request has changed nothing
\* in the database: the entry's fields, its tags, its links and the tag rows
\* are what they were before the request.
AnalyzeTxAtomic ==
  (resp.kind = "analyze" /\ resp.cause = "tx") =>
     ("db" \notin resp.wrote /\ resp.code = 500)

\* an analyze transaction threw after its first statement had created the
\* tag row, and the tag row is gone
AnalyzeTxRolledBack ==
  /\ resp.kind = "analyze"
  /\ resp.cause = "tx"
  /\ resp.ran >= 1
  /\ HasEntry(db, resp.id)
  /\ db.tags = << >>

\* C2: a transaction that returns commits every write of fn and hands back
\* fn's value; a transaction that throws leaves the database as it was at
\* BEGIN and the exception reaches the caller.
TxCommitOrRollback ==
  [][ /\ \A r \in Slots :
           (req[r].pc = "a_tx" /\ req'[r].pc # "a_tx") =>
              LET fn == AnalyzeTx(db, files, req[r].id, req[r].analysis,
                                  req[r].related, 0, NoFsFault)
              IN  IF resp'.cause = "tx"
                  THEN db' = db /\ resp'.code = 500
                  ELSE db' = fn.db /\ ((resp'.code = 200) <=> fn.ret)
      /\ \A r \in Slots :
           (req[r].pc = "d_db" /\ req'[r].pc # "d_db") =>
              IF resp'.cause = "db"
              THEN db' = db /\ resp'.code = 500
              ELSE db' = DeleteRow(db, req[r].id) ]_vars

\* an analyze transaction committed its writes
AnalyzeTxCommitted ==
  /\ resp.kind = "analyze"
  /\ resp.code = 200
  /\ "db" \in resp.wrote
  /\ getEntryTags(db, resp.id) # {}
  /\ db.entries[resp.id]["status"] = ANALYZED

\* C3: no step other than the clearing of a re-transcription lowers the
\* status of an entry.
StatusNeverLowered ==
  [][ \A id \in DOMAIN db.entries \cap DOMAIN db'.entries :
        StatusRank(db'.entries[id]["status"]) < StatusRank(db.entries[id]["status"])
          => \E r \in Slots : req[r].kind = "retranscribe" /\ req[r].pc = "s_body"
    ]_vars

\* C4: an entry whose status is analyzed has a non-empty transcript.
AnalyzedHasTranscript ==
  \A id \in DOMAIN db.entries :
     db.entries[id]["status"] = ANALYZED => Truthy(db.entries[id]["transcript"])

\* C5: a PATCH whose body has a field name outside the schema is answered
\* 400 and has changed neither the database nor the files.
PatchUnknownFieldRejected ==
  (resp.kind = "patch" /\ ~(resp.keys \subseteq SchemaKeys)) =>
     (resp.code = 400 /\ resp.wrote = {})

\* a PATCH with a valid and an unknown field on an existing entry was
\* rejected
PatchRejectedOnEntry ==
  /\ resp.kind = "patch"
  /\ resp.code = 400
  /\ {"title", "created_at"} \subseteq resp.keys
  /\ HasEntry(db, resp.id)

\* C6: a call of updateEntry changes no column of the row outside the
\* whitelist and updated_at.
UpdateEntryOnlyWhitelist ==
  [][ resp'.kind = "updateEntry" =>
        \A id \in DOMAIN db.entries \cap DOMAIN db'.entries :
          \A c \in EntryColumns \ (UpdatableFields \cup {"updated_at"}) :
             db'.entries[id][c] = db.entries[id][c] ]_vars

\* C7: once deleteEntry has removed a file the row is gone, and when its
\* database delete throws no file has been removed and the row exists.
DeleteRowBeforeFiles ==
  /\ \A r \in Slots :
       (req[r].kind = "delete" /\ "files" \in req[r].wrote)
          => ~HasEntry(db, req[r].id)
  /\ (resp.kind = "delete" /\ "files" \in resp.wrote) => ~HasEntry(db, resp.id)
  /\ (resp.kind = "delete" /\ resp.cause = "db")
        => (resp.wrote = {} /\ HasEntry(db, resp.id))

\* deleteEntry has removed the audio file and is about to remove the
\* markdown file
DeleteHasUnlinked ==
  \E r \in Slots :
     /\ req[r].kind = "delete"
     /\ req[r].pc = "d_md"
     /\ "files" \in req[r].wrote
     /\ ~Exists(files, req[r].audioPath)

\* C8: a deleteEntry whose database delete succeeds returns true and leaves
\* no row, whatever happens to the files.
DeleteToleratesFiles ==
  (resp.kind = "delete" /\ resp.code # 404 /\ resp.cause # "db") =>
     (resp.code = 200 /\ ~HasEntry(db, resp.id))

\* deleteEntry returned true although a file could not be deleted and is
\* still there
DeleteDespiteUnlinkError ==
  /\ resp.kind = "delete"
  /\ resp.code = 200
  /\ resp.fsErr
  /\ \E p \in DOMAIN files : p[2] = resp.id

\* C9: a transcribe request whose STT call fails is answered 500 and has
\* changed neither the database nor the files.
TranscribeFailureWritesNothing ==
  (resp.kind = "transcribe" /\ resp.cause = "stt") =>
     (resp.wrote = {} /\ resp.code = 500)

\* the STT call of a transcribe request on a transcribed entry failed
TranscribeFailed ==
  /\ resp.kind = "transcribe"
  /\ resp.cause = "stt"
  /\ HasEntry(db, resp.id)
  /\ db.entries[resp.id]["status"] = TRANSCRIBED

\* C10: a retranscribe request whose STT call fails has changed nothing in
\* the database.
RetranscribeFailureWritesNothing ==
  (resp.kind = "retranscribe" /\ resp.cause = "stt") => "db" \notin resp.wrote

\* C11: the clearing of a re-transcription leaves the entry without tags,
\* with title, transcript, analysis, follow-up questions and trajectory NULL
\* and status pending_transcription, and the rest of the request touches
\* neither the tags nor these fields except transcript and status.
RetranscribeClearsTags ==
  [][ \A r \in Slots :
        LET id == req[r].id
            Cleared == {"title", "analysis_json", "follow_up_questions",
                        "agent_trajectory"}
        IN  /\ (req[r].kind = "retranscribe" /\ req[r].pc = "s_body"
                  /\ req'[r].pc # "s_body" /\ HasEntry(db', id))
               => /\ getEntryTags(db', id) = {}
                  /\ \A c \in Cleared \cup {"transcript"} :
                        db'.entries[id][c] = Null
                  /\ db'.entries[id]["status"] = PENDING
            /\ (req[r].kind = "retranscribe" /\ req[r].pc = "s_stt"
                  /\ req'[r].pc # "s_stt" /\ HasEntry(db', id))
               => /\ getEntryTags(db', id) = getEntryTags(db, id)
                  /\ \A c \in Cleared : db'.entries[id][c] = db.entries[id][c]
    ]_vars

\* a re-transcription has removed the tags of an entry and waits for the
\* STT provider
RetranscribeRemovedTags ==
  \E r \in Slots :
     /\ req[r].kind = "retranscribe"
     /\ req[r].pc = "s_stt"
     /\ req[r].ran >= 1
     /\ HasEntry(db, req[r].id)
     /\ getEntryTags(db, req[r].id) = {}

\* C12: a successful analyze request leaves the entry analyzed with exactly
\* the normalized tags of that analysis run as its tag set.
AnalyzeOverwritesTags ==
  [][ \A r \in Slots :
        (req[r].pc = "a_tx" /\ req'[r].pc # "a_tx" /\ resp'.code = 200)
          => /\ db'.entries[req[r].id]["status"] = ANALYZED
             /\ getEntryTags(db', req[r].id) =
                  {trim(toLowerCase(req[r].analysis.tags[i])) :
                     i \in DOMAIN req[r].analysis.tags}
    ]_vars

\* C13: an operation called with an id that has no row answers not found,
\* does not throw and leaves the database unchanged.
MissingIdIsNotFound ==
  [][ (/\ sent' = sent + 1
       /\ resp'.kind \in {"patch", "delete", "add_tag", "remove_tag",
                          "transcribe", "retranscribe", "analyze"}
       /\ resp'.cause # "invalid_body"
       /\ ~HasEntry(db, resp'.id))
      => /\ resp'.code # 500
         /\ (resp'.kind # "remove_tag" => resp'.code = 404)
         /\ db' = db
    ]_vars

\* C14: no audio file on disk is larger than the 50MB ceiling.
ChunkFileWithinCeiling ==
  \A path \in DOMAIN files :
     path[1] = "audio" => SizeOf(files, path) <= MAX_FILE_SIZE_BYTES

\* C15: when a final chunk was accepted or a chunk was rejected for its size,
\* and no chunk request for the id is in flight, the chunk accumulator holds
\* no entry for the id.
ChunkAccumulatorCleared ==
  \A id \in Ids :
     (chunkDone[id] /\ \A r \in Slots : ~(req[r].kind = "chunk" /\ req[r].id = id))
        => id \notin DOMAIN chunkAccumulator

RetryBounded ==
  LET n == Len(retry.outcomes)
  IN  retry.maxAttempts >= 1 =>
        /\ n <= retry.maxAttempts
        /\ \A k \in 1 .. n - 1 : ~retry.outcomes[k].ok
        /\ (n >= 1 /\ retry.outcomes[n].ok)
             => (retry.phase = "returned" /\ retry.result = retry.outcomes[n].value)
        /\ retry.phase = "returned" => (n >= 1 /\ retry.outcomes[n].ok)
        /\ (n = retry.maxAttempts /\ ~retry.outcomes[n].ok)
             => (retry.phase = "threw" /\ retry.error = retry.outcomes[n].error)

\* three invocations failed with retryable errors and withRetry threw
RetryExhausted ==
  /\ retry.maxAttempts = 3
  /\ retry.classifier = "default"
  /\ Len(retry.outcomes) = 3
  /\ Len(retry.slept) = 2
  /\ retry.phase = "threw"

\* C19: when the Whisper service answers a request with a status 400-499
\* other than 429, the provider makes no further request and fails.
WhisperClientErrorOnce ==
  \A k \in 1 .. Len(retry.outcomes) :
     (/\ retry.caller = "stt"
      /\ retry.outcomes[k].status >= 400
      /\ retry.outcomes[k].status <= 499
      /\ retry.outcomes[k].status # 429)
     => (k = Len(retry.outcomes) /\ retry.phase = "threw")

\* C20: every transcribe request and every analyze request is eventually
\* answered.
RequestsEventuallyAnswered ==
  \A r \in Slots :
     (req[r].kind \in {"transcribe", "analyze"}) ~> (req[r].kind = "none")

\* C21: a getCache that directly follows a setCache of the same key returns
\* the value that was set when it supplies no token or the token of the
\* setCache, and null when it supplies another token.
CacheHitOnSameToken ==
  [][(/\ lastCall.fn = "setCache"
      /\ lastCall'.fn = "getCache"
      /\ lastCall'.name = lastCall.name)
       => IF lastCall'.token = Undefined \/ lastCall'.token = lastCall.token
          THEN lastCall'.ret = lastCall.value
          ELSE lastCall'.ret = Null]_vars

\* C22: when the analysis of an entry completes, that entry is the HEAD
\* entry: getHeadAnalyzedEntry returns it.
HeadIsLastAnalyzed ==
  [][(resp'.kind = "analyze" /\ resp'.code = 200)
       => getHeadAnalyzedEntry(db') = {resp'.id}]_vars

\* C23: every tag row's name is lowercase and trimmed, no two tag rows have
\* the same name, and getOrCreateTag returns the row whose name is the
\* normalized argument, whatever the case and the surrounding whitespace of
\* the argument.
TagsNormalizedUnique ==
  /\ \A i \in DOMAIN db.tags : db.tags[i] = trim(toLowerCase(db.tags[i]))
  /\ \A i, j \in DOMAIN db.tags : db.tags[i] = db.tags[j] => i = j
  /\ lastCall.fn = "getOrCreateTag" =>
       /\ lastCall.num \in DOMAIN db.tags
       /\ db.tags[lastCall.num] = trim(toLowerCase(lastCall.name))
  /\ (lastCall.fn = "addTagToEntry" /\ ~lastCall.threw) =>
       trim(toLowerCase(lastCall.name)) \in getEntryTags(db, lastCall.id)

\* getOrCreateTag("W ") found the row "w" that an earlier call had created
TagResolvedToExistingRow ==
  /\ lastCall.fn = "getOrCreateTag"
  /\ lastCall.name = <<"W", " ">>
  /\ lastCall.pre.tags = <<TagWork>>
  /\ db.tags = <<TagWork>>
  /\ lastCall.num = 1

\* C24: on an existing entry, addTagToEntry of a tag the entry has and
\* removeTagFromEntry of a tag it does not have change nothing and do not
\* throw, and a second application of either call changes nothing.
TagCallsIdempotent ==
  LET name == trim(toLowerCase(lastCall.name))
      id == lastCall.id
  IN  /\ (lastCall.fn = "addTagToEntry" /\ HasEntry(lastCall.pre, id)) =>
            /\ ~lastCall.threw
            /\ name \in getEntryTags(lastCall.pre, id) => db = lastCall.pre
            /\ addTagToEntry(db, id, lastCall.name) = [db |-> db, threw |-> FALSE]
      /\ (lastCall.fn = "removeTagFromEntry" /\ HasEntry(lastCall.pre, id)) =>
            /\ name \notin getEntryTags(lastCall.pre, id) => db = lastCall.pre
            /\ removeTagFromEntry(db, id, lastCall.name) = db

\* addTagToEntry was called for a tag that the entry already had, in another
\* spelling
TagAddedTwice ==
  /\ lastCall.fn = "addTagToEntry"
  /\ HasEntry(lastCall.pre, lastCall.id)
  /\ lastCall.name = <<"W", " ">>
  /\ getEntryTags(lastCall.pre, lastCall.id) = {TagWork}
  /\ getEntryTags(db, lastCall.id) = {TagWork}

\* C25: two entries are linked by at most one row of entry_links, whatever
\* the direction, and getLinkedEntries lists no entry twice.
LinksUndirectedUnique ==
  /\ \A a, b \in Ids :
        (a # b /\ <<a, b>> \in DOMAIN db.entry_links)
          => <<b, a>> \notin DOMAIN db.entry_links
  /\ \A a \in DOMAIN db.entries :
        \A p, q \in getLinkedEntries(db, a) : p.id = q.id => p = q

\* C26: every tag association references an existing entry and an existing
\* tag, and every link references two existing entries; an entry that was
\* deleted has no tag association and no link left.
ReferencesExist ==
  /\ \A et \in db.entry_tags :
        et[1] \in DOMAIN db.entries /\ et[2] \in DOMAIN db.tags
  /\ \A l \in DOMAIN db.entry_links :
        l[1] \in DOMAIN db.entries /\ l[2] \in DOMAIN db.entries
  /\ (resp.kind = "delete" /\ resp.code = 200) =>
        /\ ~HasEntry(db, resp.id)
        /\ \A et \in db.entry_tags : et[1] # resp.id
        /\ \A l \in DOMAIN db.entry_links : l[1] # resp.id /\ l[2] # resp.id

\* an entry that had a tag association was deleted
DeleteCascaded ==
  /\ resp.kind = "delete"
  /\ resp.code = 200
  /\ resp.ran >= 1
  /\ db.tags # << >>
  /\ db.entry_tags = {}

\* C27: when no request is running and no filesystem call has failed, every
\* entry has its markdown file, and the file's content is the projection of
\* the entry's current row and current tags.
MarkdownMirrorsEntry ==
  (faults = 0 /\ \A r \in Slots : req[r].pc = "idle") =>
     \A id \in DOMAIN db.entries :
        LET row == db.entries[id]
            path == getMarkdownPath(EntryOf(row))
        IN  /\ Exists(files, path)
            /\ files[path] = Render(row, getEntryTags(db, id))

\* C28: a call of updateEntry on an existing entry, with updates the UPDATE
\* statement accepts, whose markdown write or cleanup fails with an I/O
\* error returns the row and has stored the updates; it does not throw.
UpdateEntrySurvivesIoError ==
  \A u \in DirectUpdates :
     (/\ resp.kind = "updateEntry"
      /\ resp.fsErr
      /\ resp.keys = DOMAIN u
      /\ ~UpdateSqlFails(u)
      /\ resp.cause # "null")
       => /\ resp.cause = "row"
          /\ HasEntry(db, resp.id)
          /\ \A k \in DOMAIN u : db.entries[resp.id][k] = u[k]

\* the write of the markdown file failed in a call of updateEntry that set
\* the status: the row is updated and no file was written
UpdateEntryWroteNoFile ==
  /\ resp.kind = "updateEntry"
  /\ resp.fsErr
  /\ resp.cause = "row"
  /\ resp.keys = {"status"}
  /\ db.entries[resp.id]["status"] = TRANSCRIBED
  /\ resp.wrote = {"db"}

\* literal substring tests: character by character, and up to ASCII case
Contains(text, q) ==
  \E i \in 0 .. Len(text) - Len(q) : SubSeq(text, i + 1, i + Len(q)) = q

ContainsFold(text, q) == Contains(toLowerCase(text), toLowerCase(q))

\* C29 (as stated): searchEntries(q) returns exactly the entries, up to the
\* limit, whose transcript or title contains q as a literal substring,
\* character for character.
SearchReturnsLiteralMatches ==
  lastCall.fn = "searchEntries" =>
    LET q == lastCall.name
        hits == {i \in DOMAIN db.entries :
                   \/ (db.entries[i]["transcript"] # Null
                       /\ Contains(db.entries[i]["transcript"], q))
                   \/ (db.entries[i]["title"] # Null
                       /\ Contains(db.entries[i]["title"], q))}
        got == {lastCall.ret[k] : k \in 1 .. Len(lastCall.ret)}
    IN  /\ got \subseteq hits
        /\ Len(lastCall.ret) = Min(lastCall.num, Cardinality(hits))

\* C29 (amended): searchEntries(q) returns exactly the entries, up to the
\* limit, whose transcript or title contains q as a substring up to the case
\* of ASCII letters; the characters %, _ and backslash of q match only
\* themselves, so a search for % or _ never returns an entry that lacks that
\* character.
SearchReturnsMatchesUpToCase ==
  lastCall.fn = "searchEntries" =>
    LET q == lastCall.name
        hits == {i \in DOMAIN db.entries :
                   \/ (db.entries[i]["transcript"] # Null
                       /\ ContainsFold(db.entries[i]["transcript"], q))
                   \/ (db.entries[i]["title"] # Null
                       /\ ContainsFold(db.entries[i]["title"], q))}
        got == {lastCall.ret[k] : k \in 1 .. Len(lastCall.ret)}
    IN  /\ got \subseteq hits
        /\ Len(lastCall.ret) = Min(lastCall.num, Cardinality(hits))
        /\ \A i \in got :
             q \in {<<"%">>, <<"_">>, <<"\\">>} =>
               \/ (db.entries[i]["transcript"] # Null
                   /\ Contains(db.entries[i]["transcript"], q))
               \/ (db.entries[i]["title"] # Null
                   /\ Contains(db.entries[i]["title"], q))

\* a search for % or _ has returned nothing although an entry with a
\* transcript exists
SearchForWildcardFoundNothing ==
  /\ lastCall.fn = "searchEntries"
  /\ lastCall.name \in {<<"%">>, <<"_">>}
  /\ lastCall.ret = << >>
  /\ \E i \in DOMAIN db.entries : Truthy(db.entries[i]["transcript"])

\* C30: the markdown projection is idempotent: when syncEntryToMarkdown has
\* written an entry's file and runs again on the same row and tags, the
\* second run writes the same content to the same path, and no other file
\* changes unless the first run failed to remove the old ID-based file.
SyncTwiceWritesSame ==
  [][(/\ lastCall'.fn = "syncEntryToMarkdown"
      /\ lastCall'.again
      /\ lastCall'.num = 1)
     => LET path == getMarkdownPath(EntryOf(db.entries[lastCall'.id]))
            oldIdPath == getIdBasedMarkdownPath(lastCall'.id)
        IN  /\ db' = db
            /\ path \in DOMAIN files
            /\ path \in DOMAIN files'
            /\ files'[path] = files[path]
            /\ \A p \in (DOMAIN files \cup DOMAIN files') \ {oldIdPath} :
                 p \in DOMAIN files /\ p \in DOMAIN files' /\ files'[p] = files[p]]_vars

\* syncEntryToMarkdown has run twice in a row on an analyzed entry with a
\* title, and the file with the title-based name exists
SyncedTwice ==
  /\ lastCall.fn = "syncEntryToMarkdown"
  /\ lastCall.again
  /\ lastCall.num = 1
  /\ getMarkdownPath(EntryOf(db.entries[lastCall.id]))
       # getIdBasedMarkdownPath(lastCall.id)
  /\ getMarkdownPath(EntryOf(db.entries[lastCall.id])) \in DOMAIN files

\* C31: no database transaction is open while a request is suspended on an
\* external STT or analysis call: a request opens its transaction only
\* from the position after the analysis result and the related entries have
\* been obtained, and once it is open the next step of the server is that
\* request's COMMIT or ROLLBACK, with every other request left where it was.
NoTxAcrossExternalCall ==
  [][\A r \in Slots :
       /\ req'[r].tx =>
            /\ req'[r].pc = "a_in_tx"
            /\ req[r].pc = "a_tx"
            /\ req'[r].analysis # NoAnalysis
            /\ \A q \in Slots \ {r} : req'[q].pc \notin SyncPcs /\ ~req'[q].tx
       /\ req[r].tx =>
            /\ ~req'[r].tx
            /\ resp'.kind = "analyze"
            /\ \A q \in Slots \ {r} : req'[q] = req[q]]_vars

\* an analyze request has its transaction open while a transcribe request
\* is suspended on the STT call
TxOpenDuringStt ==
  \E r, q \in Slots : req[r].tx /\ req[q].pc = "s_stt"

\* C32: when analyze requests overlap, the links an analyze request creates
\* for its entry are the links to the related entries the agent returned
\* for that request: after its successful transaction the links from the
\* entry are those it had before and one to every existing entry of that
\* list, no more and no fewer.
LinksFromOwnAnalysis ==
  [][\A r \in Slots :
       (/\ req[r].pc = "a_tx"
        /\ req'[r].pc = "idle"
        /\ resp'.kind = "analyze"
        /\ resp'.code = 200)
       => {k \in DOMAIN db'.entry_links : k[1] = req[r].id}
            = {k \in DOMAIN db.entry_links : k[1] = req[r].id}
                \cup {<<req[r].id, req[r].returned[i].id>> :
                        i \in {j \in 1 .. Len(req[r].returned) :
                                 HasEntry(db, req[r].returned[j].id)}}]_vars

\* C33: no stale mirror file: as long as no filesystem call has failed, the
\* only markdown file of an entry is the one at the path derived from its
\* current status and title, and after a deleteEntry that returned true no
\* markdown file of that id remains.
NoStaleMirrorFile ==
  faults = 0 =>
    /\ \A p \in DOMAIN files :
         (p[1] = "entries" /\ HasEntry(db, p[2]))
           => p = getMarkdownPath(EntryOf(db.entries[p[2]]))
    /\ (resp.kind = "delete" /\ resp.code = 200)
         => \A p \in DOMAIN files : ~(p[1] = "entries" /\ p[2] = resp.id)

\* C34: a deleted entry is never resurrected: an entry that was deleted
\* while a transcribe, retranscribe, analyze or audio-chunk request for it
\* was suspended has, once no request for its id is running any more, no
\* row, no tag association, no link, no markdown file and no audio file.
DeletedEntryStaysGone ==
  \A id \in 1 .. issued :
    (~HasEntry(db, id) /\ \A r \in Slots : req[r].id # id)
      => /\ \A et \in db.entry_tags : et[1] # id
         /\ \A k \in DOMAIN db.entry_links : k[1] # id /\ k[2] # id
         /\ \A p \in DOMAIN files : p[2] # id

\* C35: the interview-questions endpoint returns the cached list only when
\* there is a HEAD analyzed entry and its id is the dependency token stored
\* with the list; when no analyzed entry exists it returns no list that was
\* cached under an earlier HEAD.
CachedQuestionsMatchHead ==
  (resp.kind = "questions" /\ resp.cause = "cached")
    => /\ getHeadAnalyzedEntry(db) # {}
       /\ InterviewKey \in DOMAIN db.cache
       /\ \E h \in getHeadAnalyzedEntry(db) :
            db.cache[InterviewKey].depends_on = IdText(h)

\* C36: after an updateEntry that returned the row and met no filesystem
\* error: when the entry is analyzed and its title has a non-empty slug, the
\* file {slug}--{id}.md exists with the rendering of the row and {id}.md
\* does not exist; otherwise {id}.md exists with the rendering of the row.
MirrorPathAfterUpdate ==
  (resp.kind = "updateEntry" /\ resp.cause = "row" /\ ~resp.fsErr)
    => LET row == db.entries[resp.id]
           content == Render(row, getEntryTags(db, resp.id))
           slug == IF Truthy(row["title"]) THEN sanitizeFilename(row["title"])
                   ELSE << >>
       IN  IF row["status"] = ANALYZED /\ slug # << >>
           THEN /\ MdFile(slug, resp.id) \in DOMAIN files
                /\ files[MdFile(slug, resp.id)] = content
                /\ MdFile(<< >>, resp.id) \notin DOMAIN files
           ELSE /\ MdFile(<< >>, resp.id) \in DOMAIN files
                /\ files[MdFile(<< >>, resp.id)] = content

\* an updateEntry has moved the mirror of an analyzed entry from {id}.md to
\* the title-based path
MirrorRenamedByUpdate ==
  /\ resp.kind = "updateEntry"
  /\ resp.cause = "row"
  /\ ~resp.fsErr
  /\ "files" \in resp.wrote
  /\ db.entries[resp.id]["status"] = ANALYZED
  /\ MdFile(<<"h", "i">>, resp.id) \in DOMAIN files

\* C37: a transcribe or retranscribe request on an entry without audio_path,
\* and an analyze request on an entry whose transcript is missing or empty,
\* is answered 400 in its first step: it never reaches the external call and
\* leaves the database, the files and every other request as they were.
RejectedBeforeExternalCall ==
  [][\A id \in Ids, kind \in {"transcribe", "retranscribe", "analyze"} :
       (/\ sent' = sent + 1
        /\ \/ resp'.kind = kind /\ resp'.id = id
           \/ \E r \in Slots : /\ req[r].pc = "idle"
                                /\ req'[r].kind = kind
                                /\ req'[r].id = id
        /\ HasEntry(db, id)
        /\ ~Truthy(db.entries[id][IF kind = "analyze" THEN "transcript"
                                  ELSE "audio_path"]))
       => /\ resp'.kind = kind
          /\ resp'.id = id
          /\ resp'.code = 400
          /\ resp'.wrote = {}
          /\ db' = db
          /\ files' = files
          /\ req' = req
          /\ lastAgentAnalysis' = lastAgentAnalysis]_vars

\* an analyze request on an entry whose transcript is the empty string has
\* been answered 400
EmptyTranscriptRejected ==
  /\ resp.kind = "analyze"
  /\ resp.code = 400
  /\ HasEntry(db, resp.id)
  /\ db.entries[resp.id]["transcript"] = << >>

\* C38: in withRetry the wait before the first retry is initialDelayMs, each
\* later wait is at least the wait before it multiplied by
\* backoffMultiplier unless it is capped at maxDelayMs, and no wait exceeds
\* maxDelayMs, whatever the options are.
BackoffWithinBounds ==
  /\ Len(retry.slept) >= 1 => retry.slept[1] = retry.initialDelayMs
  /\ \A i \in 2 .. Len(retry.slept) :
       \/ retry.slept[i] >= retry.slept[i - 1] * retry.backoffMultiplier
       \/ retry.slept[i] = retry.maxDelayMs
  /\ \A i \in 1 .. Len(retry.slept) : retry.slept[i] <= retry.maxDelayMs

=============================================================================
